---- MODULE Spec2Model ----
(***************************************************************************)
(* Nibble: the weekly meal planner (lib/mealPlanner.ts, planWeek) and the  *)
(* 7-day scorer (lib/scorePlan.ts, pickWeek).                              *)
(*                                                                         *)
(* Numbers.  Weights are kept in hundredths (35 is 0.35), money and        *)
(* minutes as integers.  Scores are rationals in the code; the model keeps *)
(* their numerators over a common positive denominator, so comparisons are *)
(* exact.                                                                  *)
(* Strings.  A string is a sequence of one-character strings, so that      *)
(* trim, toLowerCase and tokenize are computed, not assumed.               *)
(***************************************************************************)
EXTENDS Integers, Sequences, FiniteSets, TLC

\* ---------------------------------------------------------------- bounds
MaxPool == 2
MaxDays == 2
MaxRepeats == 2

\* ---------------------------------------------------------------- strings
UpperChars == <<"A","B","C","D","E","F","G","H","I","J","K","L","M",
                "N","O","P","Q","R","S","T","U","V","W","X","Y","Z">>
LowerChars == <<"a","b","c","d","e","f","g","h","i","j","k","l","m",
                "n","o","p","q","r","s","t","u","v","w","x","y","z">>
DigitChars == {"0","1","2","3","4","5","6","7","8","9"}
SpaceChars == {" ", "\t", "\n"}

\* the lower-case letter of each upper-case letter
LowerOf ==
  [ch \in {UpperChars[i] : i \in 1..26} |-> LowerChars[CHOOSE i \in 1..26 : UpperChars[i] = ch]]

ToLowerCh(ch) == IF ch \in DOMAIN LowerOf THEN LowerOf[ch] ELSE ch

toLowerCase(s) == [i \in 1..Len(s) |-> ToLowerCh(s[i])]

RECURSIVE TrimStart(_)
TrimStart(s) ==
  IF s # <<>> /\ Head(s) \in SpaceChars THEN TrimStart(Tail(s)) ELSE s

RECURSIVE TrimEnd(_)
TrimEnd(s) ==
  IF s # <<>> /\ s[Len(s)] \in SpaceChars
    THEN TrimEnd(SubSeq(s, 1, Len(s) - 1)) ELSE s

trim(s) == TrimEnd(TrimStart(s))

titleKey(s) == toLowerCase(trim(s))

\* ---------------------------------------------------------------- maps
\* A JS Map with numeric values: a function whose domain is the keys set so far.
EmptyMap == [k \in {} |-> 0]
MapGet(m, k) == IF k \in DOMAIN m THEN m[k] ELSE 0
\* variant: the count is set to 1 instead of incremented
MapInc_Reset(m, k) == [x \in (DOMAIN m) \cup {k} |-> IF x = k THEN 1 ELSE m[x]]
MapInc(m, k) == [x \in (DOMAIN m) \cup {k} |-> IF x = k THEN MapGet(m, k) + 1 ELSE m[x]]

\* ---------------------------------------------------------------- numbers
\* The value standing for NaN / Infinity in a cost or minutes field.
NonFinite == 0 - 1000
isFinite(x) == x # NonFinite
\* An optional number: <<>> is null / undefined, <<v>> is the number v.
None == <<>>
Some(v) == <<v>>

RECURSIVE SumSeq(_)
SumSeq(s) == IF s = <<>> THEN 0 ELSE Head(s) + SumSeq(Tail(s))

SetMin(S) == CHOOSE x \in S : \A y \in S : x <= y
SetMax(S) == CHOOSE x \in S : \A y \in S : x >= y

clamp01(n) == SetMax({0, SetMin({100, n})})

\* ---------------------------------------------------------------- slots
MealSlots == {"breakfast", "lunch", "dinner", "snack", "dessert"}

SlotTag(s) == [k |-> "slot", v |-> s]
ProtTag(p) == [k |-> "prot", v |-> p]
CuisineTag(c) == [k |-> "cuisine", v |-> c]

tags(c) == c.tags

hasAnySlotTag(c) == \E i \in 1..Len(tags(c)) : tags(c)[i].k = "slot"

hasSlotTag(c, slot) ==
  IF ~ (\E i \in 1..Len(tags(c)) : tags(c)[i].k = "slot")
    THEN slot = "lunch" \/ slot = "dinner"
    ELSE \E i \in 1..Len(tags(c)) : tags(c)[i] = SlotTag(slot)

\* variant: the broadened rule looks at the neighbouring slots only
isSlotCompatibleWithFallback_NeighboursOnly(c, slot, phase) ==
  IF phase = 0 THEN hasSlotTag(c, slot)
  ELSE LET is(s) == hasSlotTag(c, s)
           untagged == ~ hasAnySlotTag(c)
       IN CASE slot = "breakfast" -> is("snack")
            [] slot = "lunch"     -> is("dinner") \/ untagged
            [] slot = "dinner"    -> is("lunch") \/ untagged
            [] slot = "snack"     -> is("breakfast") \/ is("lunch")
            [] slot = "dessert"   -> is("snack")

isSlotCompatibleWithFallback(c, slot, phase) ==
  IF phase = 0 THEN hasSlotTag(c, slot)
  ELSE LET is(s) == hasSlotTag(c, s)
           untagged == ~ hasAnySlotTag(c)
       IN CASE slot = "breakfast" -> is("breakfast") \/ is("snack")
            [] slot = "lunch"     -> is("lunch") \/ is("dinner") \/ untagged
            [] slot = "dinner"    -> is("dinner") \/ is("lunch") \/ untagged
            [] slot = "snack"     -> is("snack") \/ is("breakfast") \/ is("lunch")
            [] slot = "dessert"   -> is("dessert") \/ is("snack")

\* ---------------------------------------------------------------- diversity
FirstTag(c, kind, dflt) ==
  IF \E i \in 1..Len(tags(c)) : tags(c)[i].k = kind
    THEN tags(c)[SetMin({i \in 1..Len(tags(c)) : tags(c)[i].k = kind})]
    ELSE dflt

getKeySet(c) ==
  LET protein == FirstTag(c, "prot", ProtTag("none"))
      cuisine == FirstTag(c, "cuisine", CuisineTag("gen"))
  IN [protein |-> protein, cuisine |-> cuisine, family |-> <<protein, cuisine>>]

\* variant: a family used before is penalised once, however often it was used
diversityPenalty_Flat(c, usedFams, diversityWeight) ==
  diversityWeight * (IF MapGet(usedFams, getKeySet(c).family) > 0 THEN 1 ELSE 0) * 35

\* diversityWeight * count * 0.35, in units of 1/10000
diversityPenalty(c, usedFams, diversityWeight) ==
  diversityWeight * MapGet(usedFams, getKeySet(c).family) * 35

\* ---------------------------------------------------------------- math
range(arr) ==
  LET finite == {arr[i] : i \in {j \in 1..Len(arr) : isFinite(arr[j])}}
  IN IF finite = {} THEN [min |-> 0, max |-> 1]
     ELSE IF SetMin(finite) = SetMax(finite)
            THEN [min |-> SetMin(finite), max |-> SetMin(finite) + 1]
            ELSE [min |-> SetMin(finite), max |-> SetMax(finite)]

\* ---------------------------------------------------------------- options
normalizeOpts(o) ==
  IF o.kind = "number"
    THEN [mealsPerDay |-> 2, weightCost |-> clamp01(o.w), weightTime |-> 100 - clamp01(o.w),
          diversityWeight |-> 35, budgetCapUSD |-> None, days |-> 7,
          maxRepeatsPerWeek |-> 3, noAdjacentSameTitle |-> TRUE]
    ELSE [mealsPerDay |-> SetMax({1, SetMin({4, o.mealsPerDay})}),
          weightCost |-> clamp01(o.weightCost),
          weightTime |-> clamp01(o.weightTime),
          diversityWeight |-> clamp01(IF o.diversityWeight = None THEN 35 ELSE o.diversityWeight[1]),
          budgetCapUSD |-> o.budgetCapUSD,
          days |-> SetMax({1, SetMin({14, IF o.days = None THEN 7 ELSE o.days[1]})}),
          maxRepeatsPerWeek |-> SetMax({1, SetMin({7,
              IF o.maxRepeatsPerWeek = None THEN 3 ELSE o.maxRepeatsPerWeek[1]})}),
          noAdjacentSameTitle |-> IF o.noAdjacentSameTitle = None THEN TRUE
                                  ELSE o.noAdjacentSameTitle[1]]

\* variant: the two-meal day is served dinner first
slotsForMealsPerDay_DinnerFirst(mealsPerDay) ==
  IF mealsPerDay <= 1 THEN <<"dinner">>
  ELSE IF mealsPerDay = 2 THEN <<"dinner", "lunch">>
  ELSE IF mealsPerDay = 3 THEN <<"breakfast", "lunch", "dinner">>
  ELSE <<"breakfast", "lunch", "dinner", "snack">>

slotsForMealsPerDay(mealsPerDay) ==
  IF mealsPerDay <= 1 THEN <<"dinner">>
  ELSE IF mealsPerDay = 2 THEN <<"lunch", "dinner">>
  ELSE IF mealsPerDay = 3 THEN <<"breakfast", "lunch", "dinner">>
  ELSE <<"breakfast", "lunch", "dinner", "snack">>

\* variant: array index math, only the last chosen slot is looked at
appearsOnDay_LastOnly(chosenSlots, dayIndex, title) ==
  /\ Len(chosenSlots) > 0
  /\ chosenSlots[Len(chosenSlots)].dayIndex = dayIndex
  /\ titleKey(chosenSlots[Len(chosenSlots)].recipe.title) = titleKey(title)

appearsOnDay(chosenSlots, dayIndex, title) ==
  \E i \in 1..Len(chosenSlots) :
     /\ chosenSlots[i].dayIndex = dayIndex
     /\ titleKey(chosenSlots[i].recipe.title) = titleKey(title)

\* ---------------------------------------------------------------- scoring
norm(v, min, max) == [num |-> v - min, den |-> max - min]

\* The score pickBest gives to c, times 10000 * costDen * timeDen (> 0).
ScoreOf(c, currentCost, costRange, timeRange, diversityWeight, weightCost, weightTime, budgetCapUSD, usedFams) ==
  LET costN == norm(c.costUSD, costRange.min, costRange.max)
      timeN == norm(c.minutes, timeRange.min, timeRange.max)
      base == 100 * weightCost * costN.num * timeN.den
              + 100 * weightTime * timeN.num * costN.den
              + diversityPenalty(c, usedFams, diversityWeight) * costN.den * timeN.den
  IN IF budgetCapUSD # None /\ currentCost > budgetCapUSD[1]
       THEN base + 12500 * costN.num * timeN.den
       ELSE base

\* pickBest's loop over list (pool indices, in list order): best is 0 for null,
\* hasBest = FALSE stands for bestScore = Infinity.
RECURSIVE PickBestLoop(_, _, _, _, _)
PickBestLoop(list, score, best, hasBest, bestScore) ==
  IF list = <<>> THEN best
  ELSE LET c == Head(list)
       IN IF (~ hasBest) \/ score[c] < bestScore
            THEN PickBestLoop(Tail(list), score, c, TRUE, score[c])
            ELSE PickBestLoop(Tail(list), score, best, hasBest, bestScore)

\* variant: <= in place of <, the last of the least-scored candidates wins
pickBest_LastWins(list, score) ==
  PickBestLoop([i \in 1..Len(list) |-> list[Len(list) + 1 - i]], score, 0, FALSE, 0)

pickBest(list, score) == PickBestLoop(list, score, 0, FALSE, 0)

\* ---------------------------------------------------------------- the planner
\* the state of one run of planWeek (lib/mealPlanner.ts); picks is the log of
\* what pickForSlot returned for each visited cell
VARIABLES candidates, options, pc, pool, opts, d, si, chosen, usedTitles,
          usedFamilies, runningCost, plan, picks

planVars == <<candidates, options, pc, pool, opts, d, si, chosen, usedTitles,
              usedFamilies, runningCost, plan, picks>>

\* the state of one run of pickWeek (lib/scorePlan.ts)
\* and the week the plan store keeps (state.week of lib/planStore.ts)
VARIABLES pwPool, pwWeights, pwCons, pwPc, pwDay, pwChosen, seenVariety, reuseHits, pwResult,
          week

pickVars == <<pwPool, pwWeights, pwCons, pwPc, pwDay, pwChosen, seenVariety, reuseHits, pwResult,
              week>>

\* one call into lib/mathEngine.ts: the call and its arguments, what it returned
\* or threw, what the converse conversion returned, the rows of costBreakdown
VARIABLES mCall, mRet, mBack, mRows

mathVars == <<mCall, mRet, mBack, mRows>>

\* the week of the plan store (week of usePlanStore in lib/planStore.ts)
VARIABLES weekPlan

storeVars == <<weekPlan>>

vars == <<planVars, pickVars, mathVars, storeVars>>

\* what a step of planWeek, of pickWeek, of the math engine, of the plan store
\* leaves alone
notPlanVars == <<pickVars, mathVars, storeVars>>
notPickVars == <<planVars, mathVars, storeVars>>
notMathVars == <<planVars, pickVars, storeVars>>
notStoreVars == <<planVars, pickVars, mathVars>>

Phases == <<"A", "B", "C", "D", "E">>

\* variant: the count is looked up under the raw title
usedCount_RawTitle(c, used) == MapGet(used, c.title)

usedCount(c, used) == MapGet(used, titleKey(c.title))

\* The five filter predicates of pickForSlot, over the run's tracking state.
PhasePass(ph, c, dayIndex, slot, used, chosenSlots, o) ==
  CASE ph = "A" -> usedCount(c, used) = 0 /\ isSlotCompatibleWithFallback(c, slot, 0)
    [] ph = "B" -> /\ usedCount(c, used) < o.maxRepeatsPerWeek
                   /\ isSlotCompatibleWithFallback(c, slot, 0)
                   /\ (~ o.noAdjacentSameTitle \/ ~ appearsOnDay(chosenSlots, dayIndex - 1, c.title))
    [] ph = "C" -> /\ usedCount(c, used) < o.maxRepeatsPerWeek
                   /\ isSlotCompatibleWithFallback(c, slot, 0)
    [] ph = "D" -> /\ usedCount(c, used) < o.maxRepeatsPerWeek
                   /\ isSlotCompatibleWithFallback(c, slot, 1)
                   /\ (~ o.noAdjacentSameTitle \/ ~ appearsOnDay(chosenSlots, dayIndex - 1, c.title))
    [] ph = "E" -> /\ usedCount(c, used) < o.maxRepeatsPerWeek
                   /\ isSlotCompatibleWithFallback(c, slot, 1)

\* pool.filter(pass): the indices of the pool that pass, in pool order.
RECURSIVE FilterIdx(_, _)
FilterIdx(ok, i) ==
  IF i > Len(ok) THEN <<>>
  ELSE IF ok[i] THEN <<i>> \o FilterIdx(ok, i + 1) ELSE FilterIdx(ok, i + 1)

PhaseList(ph, p, dayIndex, slot, used, chosenSlots, o) ==
  FilterIdx([i \in 1..Len(p) |-> PhasePass(ph, p[i], dayIndex, slot, used, chosenSlots, o)], 1)

Scores(p, cost, fams, o) ==
  LET costRange == range([i \in 1..Len(p) |-> p[i].costUSD])
      timeRange == range([i \in 1..Len(p) |-> p[i].minutes])
  IN [i \in 1..Len(p) |->
        ScoreOf(p[i], cost, costRange, timeRange, o.diversityWeight,
                o.weightCost, o.weightTime, o.budgetCapUSD, fams)]

\* pickForSlot: [idx |-> pool index or 0 for null, phase |-> index into Phases or 0]
RECURSIVE PickForSlotFrom(_, _, _, _, _, _, _, _, _)
PickForSlotFrom(k, p, dayIndex, slot, used, fams, cost, chosenSlots, o) ==
  IF k > Len(Phases) THEN [idx |-> 0, phase |-> 0]
  ELSE LET list == PhaseList(Phases[k], p, dayIndex, slot, used, chosenSlots, o)
           candidate == IF Len(list) > 0 THEN pickBest(list, Scores(p, cost, fams, o)) ELSE 0
       IN IF candidate # 0 THEN [idx |-> candidate, phase |-> k]
          ELSE PickForSlotFrom(k + 1, p, dayIndex, slot, used, fams, cost, chosenSlots, o)

\* variant: the ladder stops after phase B
pickForSlot_NoRelax(p, dayIndex, slot, used, fams, cost, chosenSlots, o) ==
  LET r == PickForSlotFrom(1, p, dayIndex, slot, used, fams, cost, chosenSlots, o)
  IN IF r.phase > 2 THEN [idx |-> 0, phase |-> 0] ELSE r

\* variant: the most permissive phase is tried alone
pickForSlot_BroadOnly(p, dayIndex, slot, used, fams, cost, chosenSlots, o) ==
  PickForSlotFrom(5, p, dayIndex, slot, used, fams, cost, chosenSlots, o)

pickForSlot(p, dayIndex, slot, used, fams, cost, chosenSlots, o) ==
  PickForSlotFrom(1, p, dayIndex, slot, used, fams, cost, chosenSlots, o)

\* variant: the normalised title is stored
PlanRecipeOf_KeyTitle(best) ==
  [id |-> best.id, title |-> titleKey(best.title), minutes |-> best.minutes,
   costUSD |-> best.costUSD]

PlanRecipeOf(best) ==
  [id |-> best.id, title |-> best.title, minutes |-> best.minutes, costUSD |-> best.costUSD]

emptyPlan(days, mealsPerDay) ==
  [slots |-> <<>>,
   summary |-> [days |-> days, slotsPerDay |-> mealsPerDay, totalCostUSD |-> 0,
                avgMinutes |-> [num |-> 0, den |-> 1],
                avgCoverage |-> [num |-> 0, den |-> 1],
                avgPriceConfidence |-> [num |-> 0, den |-> 1],
                costIsEstimate |-> TRUE]]

\* plan before planWeek has returned
NoPlan == [slots |-> <<>>, summary |-> <<>>]

\* ---------------------------------------------------------------- inputs
Cand(id, title, minutes, costUSD, tgs, coverage, priceConfidence) ==
  [id |-> id, title |-> title, minutes |-> minutes, costUSD |-> costUSD, tags |-> tgs,
   coverage |-> coverage, priceConfidence |-> priceConfidence]

\* The candidates a pool is drawn from: untagged and slot-tagged meals, two
\* spellings of one title, equal scores, meals with several slot tags, family
\* tags shared by two titles, a non-finite cost.
Catalogue ==
  { Cand("pie",  <<"P","i","e">>,     10, 2, <<>>, Some(80), Some(90)),
    Cand("pie2", <<" ","p","i","e">>, 20, 1, <<SlotTag("dinner")>>, None, None),
    Cand("ham",  <<"H","a","m">>,     10, 2, <<>>, Some(50), Some(40)),
    Cand("oat",  <<"O","a","t">>,     10, 1,
         <<SlotTag("breakfast"), ProtTag("egg"), SlotTag("lunch")>>, Some(100), None),
    Cand("nut",  <<"N","u","t">>,     10, 3,
         <<ProtTag("egg"), SlotTag("snack"), SlotTag("dinner")>>, Some(60), Some(60)),
    Cand("dal",  <<"D","a","l">>,     20, 2,
         <<ProtTag("bean"), SlotTag("lunch"), CuisineTag("in")>>, Some(90), Some(90)),
    Cand("tea",  <<"T","e","a">>,     10, NonFinite, <<>>, Some(100), Some(100)) }

Pools == UNION {[1..n -> Catalogue] : n \in 0..MaxPool}

\* weightCost, weightTime, diversityWeight, budgetCapUSD as the callers set them
WeightProfiles ==
  { [weightCost |-> 100, weightTime |-> 0,   diversityWeight |-> Some(0), budgetCapUSD |-> None],
    [weightCost |-> 50,  weightTime |-> 120, diversityWeight |-> None,    budgetCapUSD |-> Some(2)] }

RawOptions ==
  { [kind |-> "number", w |-> 50] } \cup
  { [kind |-> "object", mealsPerDay |-> m, weightCost |-> w.weightCost,
     weightTime |-> w.weightTime, diversityWeight |-> w.diversityWeight,
     budgetCapUSD |-> w.budgetCapUSD, days |-> Some(dd), maxRepeatsPerWeek |-> Some(r),
     noAdjacentSameTitle |-> a] :
       m \in 1..4, w \in WeightProfiles, dd \in 1..MaxDays, r \in 1..MaxRepeats,
       a \in {None, Some(FALSE)} }

\* ---------------------------------------------------------------- actions
InitPlan ==
  /\ candidates \in Pools
  /\ options \in RawOptions
  /\ pc = "start"
  /\ pool = <<>>
  /\ opts = normalizeOpts(options)
  /\ d = 0
  /\ si = 1
  /\ chosen = <<>>
  /\ usedTitles = EmptyMap
  /\ usedFamilies = EmptyMap
  /\ runningCost = 0
  /\ plan = NoPlan
  /\ picks = <<>>

\* variant: the filter looks at the cost only
FinitePool_CostOnly(cs) ==
  FilterIdx([i \in 1..Len(cs) |-> isFinite(cs[i].costUSD)], 1)

FinitePool(cs) ==
  FilterIdx([i \in 1..Len(cs) |-> isFinite(cs[i].costUSD) /\ isFinite(cs[i].minutes)], 1)

\* planWeek, entry: no candidate survives the filter
PlanWeekEmpty ==
  /\ pc = "start"
  /\ FinitePool(candidates) = <<>>
  /\ plan' = emptyPlan(opts.days, opts.mealsPerDay)
  /\ pc' = "done"
  /\ UNCHANGED <<candidates, options, pool, opts, d, si, chosen, usedTitles,
                 usedFamilies, runningCost, picks>>
  /\ UNCHANGED notPlanVars

\* planWeek, entry: the pool is filtered and the loop starts
PlanWeekBegin ==
  /\ pc = "start"
  /\ FinitePool(candidates) # <<>>
  /\ pool' = [i \in 1..Len(FinitePool(candidates)) |-> candidates[FinitePool(candidates)[i]]]
  /\ pc' = "loop"
  /\ UNCHANGED <<candidates, options, opts, d, si, chosen, usedTitles,
                 usedFamilies, runningCost, plan, picks>>
  /\ UNCHANGED notPlanVars

daySlots == slotsForMealsPerDay(opts.mealsPerDay)

applyPick(best, dayIndex, slot) ==
  /\ usedTitles' = MapInc(usedTitles, titleKey(best.title))
  /\ usedFamilies' = MapInc(usedFamilies, getKeySet(best).family)
  /\ runningCost' = runningCost + best.costUSD
  /\ chosen' = Append(chosen, [dayIndex |-> dayIndex, slot |-> slot, recipe |-> PlanRecipeOf(best)])

\* One iteration of the loop of planWeek: the cell (d, daySlots[si]).
\* picks logs, per visited cell, what pickForSlot returned.
VisitCell ==
  /\ pc = "loop"
  /\ d < opts.days
  /\ \E slot \in {daySlots[si]} :
       \E pick \in {pickForSlot(pool, d, slot, usedTitles, usedFamilies, runningCost, chosen, opts)} :
          /\ IF pick.idx # 0
               THEN applyPick(pool[pick.idx], d, slot)
               ELSE UNCHANGED <<usedTitles, usedFamilies, runningCost, chosen>>
          /\ picks' = Append(picks, [dayIndex |-> d, slot |-> slot, idx |-> pick.idx, phase |-> pick.phase])
  /\ IF si < Len(daySlots) THEN si' = si + 1 /\ d' = d
                           ELSE si' = 1 /\ d' = d + 1
  /\ UNCHANGED <<candidates, options, pc, pool, opts, plan>>
  /\ UNCHANGED notPlanVars

\* variant: the sum is returned, the division by the length is forgotten
avg_SumOnly(arr) == [num |-> SumSeq(arr), den |-> 1]

avg(arr) == IF Len(arr) = 0 THEN [num |-> 0, den |-> 1] ELSE [num |-> SumSeq(arr), den |-> Len(arr)]

OrZero(x) == IF x = None THEN 0 ELSE x[1]

\* planWeek, after the loop: the summary
PlanWeekFinish ==
  /\ pc = "loop"
  /\ d >= opts.days
  /\ plan' = [slots |-> chosen,
              summary |-> [days |-> opts.days,
                           slotsPerDay |-> Len(daySlots),
                           totalCostUSD |-> SumSeq([i \in 1..Len(chosen) |-> chosen[i].recipe.costUSD]),
                           avgMinutes |-> avg([i \in 1..Len(chosen) |-> chosen[i].recipe.minutes]),
                           avgCoverage |-> avg([i \in 1..Len(pool) |-> OrZero(pool[i].coverage)]),
                           avgPriceConfidence |-> avg([i \in 1..Len(pool) |-> OrZero(pool[i].priceConfidence)]),
                           costIsEstimate |->
                             LET a == avg([i \in 1..Len(pool) |-> OrZero(pool[i].coverage)])
                             IN a.num < 70 * a.den]]
  /\ pc' = "done"
  /\ UNCHANGED <<candidates, options, pool, opts, d, si, chosen, usedTitles,
                 usedFamilies, runningCost, picks>>
  /\ UNCHANGED notPlanVars

\* ================================================================ scorePlan
\* ---------------------------------------------------------------- tokenize
IsAlnum(ch) == ch \in DigitChars \/ \E i \in 1..26 : LowerChars[i] = ch

\* .replace(/[^a-z0-9\s]/g, " ") on a lower-cased string
StripPunct(s) ==
  [i \in 1..Len(s) |-> IF IsAlnum(s[i]) \/ s[i] \in SpaceChars THEN s[i] ELSE " "]

\* .split(/\s+/).filter(Boolean): the maximal runs of non-space characters
RECURSIVE SplitWords(_, _)
SplitWords(s, cur) ==
  IF s = <<>> THEN (IF cur = <<>> THEN <<>> ELSE <<cur>>)
  ELSE IF Head(s) \in SpaceChars
         THEN (IF cur = <<>> THEN <<>> ELSE <<cur>>) \o SplitWords(Tail(s), <<>>)
         ELSE SplitWords(Tail(s), Append(cur, Head(s)))

tokenize(str) == SplitWords(StripPunct(toLowerCase(str)), <<>>)

\* texts.join(sep)
RECURSIVE Join(_, _)
Join(texts, sep) ==
  IF texts = <<>> THEN <<>>
  ELSE IF Len(texts) = 1 THEN texts[1]
  ELSE texts[1] \o sep \o Join(Tail(texts), sep)

Range(f) == {f[i] : i \in DOMAIN f}

\* variant: a term blocks when it occurs anywhere in the joined text
hasForbiddenTerms_Substring(texts, forbid) ==
  IF Len(forbid) = 0 THEN FALSE
  ELSE LET text == toLowerCase(Join(texts, <<" ">>))
       IN \E i \in 1..Len(forbid) : \E a \in 1..Len(text) :
             /\ a + Len(trim(forbid[i])) - 1 <= Len(text)
             /\ SubSeq(text, a, a + Len(trim(forbid[i])) - 1) = trim(toLowerCase(forbid[i]))

hasForbiddenTerms(texts, forbid) ==
  IF Len(forbid) = 0 THEN FALSE
  ELSE LET bag == Range(tokenize(Join(texts, <<" ">>)))
       IN \E i \in 1..Len(forbid) : trim(toLowerCase(forbid[i])) \in bag

windowOK(minutes, w) ==
  IF w = "le30" THEN minutes <= 30
  ELSE IF w = "le45" THEN minutes <= 45
  ELSE TRUE

reuseCount(ingredients, pantry) ==
  IF Len(ingredients) = 0 \/ Len(pantry) = 0 THEN 0
  ELSE Cardinality({i \in 1..Len(ingredients) :
                      toLowerCase(ingredients[i]) \in {toLowerCase(pantry[j]) : j \in 1..Len(pantry)}})

varietyKey(r) ==
  LET tgs == FilterIdx([i \in 1..Len(r.tags) |-> r.tags[i] # <<>>], 1)
  IN IF Len(tgs) > 0
       THEN Join([i \in 1..Len(tgs) |-> r.tags[tgs[i]]], <<"|">>)
       ELSE Join(SubSeq(tokenize(r.title), 1, SetMin({3, Len(tokenize(r.title))})), <<"|">>)

\* ---------------------------------------------------------------- scoring
norm01(x, min, max) ==
  IF max <= min THEN [num |-> 1, den |-> 2]
  ELSE [num |-> SetMax({0, SetMin({max - min, x - min})}), den |-> max - min]

Bounds(p) ==
  [minCost |-> SetMin({p[i].cost : i \in 1..Len(p)}),
   maxCost |-> SetMax({p[i].cost : i \in 1..Len(p)}),
   minTime |-> SetMin({p[i].minutes : i \in 1..Len(p)}),
   maxTime |-> SetMax({p[i].minutes : i \in 1..Len(p)})]

\* Scores of one run are kept times ScoreScale(bounds) = 100 * costDen * timeDen.
ScoreScale(b) ==
  100 * norm01(b.minCost, b.minCost, b.maxCost).den * norm01(b.minTime, b.minTime, b.maxTime).den

HardBlockScore(b) == (0 - 1000000) * ScoreScale(b)
HardBlockLimit(b) == (0 - 100000) * ScoreScale(b)
FallbackScore(b)  == (0 - 999) * ScoreScale(b)

DayWindow(cons, dayIndex) ==
  IF dayIndex \in DOMAIN cons.dayWindows THEN cons.dayWindows[dayIndex] ELSE "any"

scoreDayCandidate(r, b, w, cons, dayIndex) ==
  IF hasForbiddenTerms(<<r.title>> \o r.ingredients \o r.tags, cons.forbidTerms)
    THEN HardBlockScore(b)
    ELSE LET cn == norm01(r.cost, b.minCost, b.maxCost)
             tn == norm01(r.minutes, b.minTime, b.maxTime)
             windowPenalty == IF windowOK(r.minutes, DayWindow(cons, dayIndex)) THEN 0
                              ELSE w.windowPenalty
             reuseBonus == reuseCount(r.ingredients, cons.pantryItems) * w.reuseBonus
         IN w.weightCost * (cn.den - cn.num) * tn.den
            + w.weightTime * (tn.den - tn.num) * cn.den
            + (reuseBonus - windowPenalty) * cn.den * tn.den

\* ---------------------------------------------------------------- pickWeek
\* the inner loop of pickWeek over the pool, from index i: best is 0 for null
RECURSIVE BestOfDay(_, _, _, _, _, _, _, _)
BestOfDay(p, i, b, w, cons, day, seen, best) ==
  IF i > Len(p) THEN best
  ELSE LET s0 == scoreDayCandidate(p[i], b, w, cons, day)
           s == s0 - MapGet(seen, varietyKey(p[i])) * w.varietyPenalty * (ScoreScale(b) \div 100)
       IN IF s0 < HardBlockLimit(b)
            THEN BestOfDay(p, i + 1, b, w, cons, day, seen, best)
            ELSE IF best.idx = 0 \/ s > best.score
                   THEN BestOfDay(p, i + 1, b, w, cons, day, seen, [idx |-> i, score |-> s])
                   ELSE BestOfDay(p, i + 1, b, w, cons, day, seen, best)

\* pool.filter(not forbidden by title and ingredients).sort(by cost)[0] ?? pool[0]
FallbackPick(p, cons) ==
  LET safe == FilterIdx([i \in 1..Len(p) |->
                 ~ hasForbiddenTerms(<<p[i].title>> \o p[i].ingredients, cons.forbidTerms)], 1)
      cheapest == SetMin({p[safe[j]].cost : j \in 1..Len(safe)})
  IN IF Len(safe) > 0
       THEN safe[SetMin({j \in 1..Len(safe) : p[safe[j]].cost = cheapest})]
       ELSE 1

NoWeek == [days |-> <<>>, totals |-> [costUSD |-> 0, minutes |-> 0],
           summary |-> [reuseHits |-> 0, varietyScore |-> 0], scoreSum |-> 0]

\* pickWeek on an empty pool
PickWeekEmpty ==
  /\ pwPc = "start"
  /\ Len(pwPool) = 0
  /\ pwResult' = NoWeek
  /\ pwPc' = "done"
  /\ UNCHANGED <<pwPool, pwWeights, pwCons, pwDay, pwChosen, seenVariety, reuseHits, week>>
  /\ UNCHANGED notPickVars

\* variant: a day on which every recipe is blocked gets no pick
PickDay_SkipBlocked ==
  /\ pwPc = "start"
  /\ Len(pwPool) > 0
  /\ pwDay < 7
  /\ \E b \in {Bounds(pwPool)} :
     \E best \in {BestOfDay(pwPool, 1, b, pwWeights, pwCons, pwDay, seenVariety,
                            [idx |-> 0, score |-> 0])} :
        IF best.idx = 0
          THEN UNCHANGED <<pwChosen, seenVariety, reuseHits>>
          ELSE /\ pwChosen' = Append(pwChosen, [recipe |-> pwPool[best.idx], score |-> best.score])
               /\ seenVariety' = MapInc(seenVariety, varietyKey(pwPool[best.idx]))
               /\ reuseHits' = reuseHits
                     + reuseCount(pwPool[best.idx].ingredients, pwCons.pantryItems)
  /\ pwDay' = pwDay + 1
  /\ UNCHANGED <<pwPool, pwWeights, pwCons, pwPc, pwResult, week>>
  /\ UNCHANGED notPickVars

\* one iteration of the day loop of pickWeek
PickDay ==
  /\ pwPc = "start"
  /\ Len(pwPool) > 0
  /\ pwDay < 7
  /\ \E b \in {Bounds(pwPool)} :
     \E best \in {BestOfDay(pwPool, 1, b, pwWeights, pwCons, pwDay, seenVariety,
                            [idx |-> 0, score |-> 0])} :
        IF best.idx = 0
          THEN /\ pwChosen' = Append(pwChosen,
                     [recipe |-> pwPool[FallbackPick(pwPool, pwCons)], score |-> FallbackScore(b)])
               /\ UNCHANGED <<seenVariety, reuseHits>>
          ELSE /\ pwChosen' = Append(pwChosen, [recipe |-> pwPool[best.idx], score |-> best.score])
               /\ seenVariety' = MapInc(seenVariety, varietyKey(pwPool[best.idx]))
               /\ reuseHits' = reuseHits
                     + reuseCount(pwPool[best.idx].ingredients, pwCons.pantryItems)
  /\ pwDay' = pwDay + 1
  /\ UNCHANGED <<pwPool, pwWeights, pwCons, pwPc, pwResult, week>>
  /\ UNCHANGED notPickVars

\* pickWeek after the day loop: totals and the weekly over-budget penalty.
\* Costs are whole dollars, so toFixed(2) and Math.round keep the sums;
\* scoreSum and varietyScore are times ScoreScale.
PickWeekFinish ==
  /\ pwPc = "start"
  /\ Len(pwPool) > 0
  /\ pwDay >= 7
  /\ LET b == Bounds(pwPool)
         totals == [costUSD |-> SumSeq([i \in 1..Len(pwChosen) |-> pwChosen[i].recipe.cost]),
                    minutes |-> SumSeq([i \in 1..Len(pwChosen) |-> pwChosen[i].recipe.minutes])]
         cap == pwCons.budgetCapUSD
         sum == SumSeq([i \in 1..Len(pwChosen) |-> pwChosen[i].score])
     IN IF cap # None /\ cap[1] # 0 /\ totals.costUSD > cap[1]
          THEN LET penalty == (totals.costUSD - cap[1]) * pwWeights.overBudgetPenalty
                                 * (ScoreScale(b) \div 100)
               IN pwResult' = [days |-> pwChosen, totals |-> totals,
                               summary |-> [reuseHits |-> reuseHits, varietyScore |-> 0 - penalty],
                               scoreSum |-> sum - penalty]
          ELSE pwResult' = [days |-> pwChosen, totals |-> totals,
                            summary |-> [reuseHits |-> reuseHits, varietyScore |-> 0],
                            scoreSum |-> sum]
  /\ pwPc' = "done"
  /\ UNCHANGED <<pwPool, pwWeights, pwCons, pwDay, pwChosen, seenVariety, reuseHits, week>>
  /\ UNCHANGED notPickVars

\* ---------------------------------------------------------------- rescoreWeek
\* the day loop of pickWeek from `day` on, as one function of its arguments
\* one day: best is the result of the inner loop, idx 0 when all are blocked
pickWeekDay(p, b, cons, st, best) ==
  IF best.idx = 0
    THEN [st EXCEPT !.chosen = Append(@, [recipe |-> p[FallbackPick(p, cons)],
                                          score |-> FallbackScore(b)])]
    ELSE [chosen |-> Append(st.chosen, [recipe |-> p[best.idx], score |-> best.score]),
          seen |-> MapInc(st.seen, varietyKey(p[best.idx])),
          hits |-> st.hits + reuseCount(p[best.idx].ingredients, cons.pantryItems)]

RECURSIVE pickWeekLoop(_, _, _, _, _, _)
pickWeekLoop(p, b, w, cons, day, st) ==
  IF day >= 7 THEN st
  ELSE pickWeekLoop(p, b, w, cons, day + 1,
         pickWeekDay(p, b, cons, st,
                     BestOfDay(p, 1, b, w, cons, day, st.seen, [idx |-> 0, score |-> 0])))

\* totals, over-budget penalty and sums of pickWeek for the picks of the day loop
weekResult(p, b, w, cons, st) ==
  LET totals == [costUSD |-> SumSeq([i \in 1..Len(st.chosen) |-> st.chosen[i].recipe.cost]),
                 minutes |-> SumSeq([i \in 1..Len(st.chosen) |-> st.chosen[i].recipe.minutes])]
      cap == cons.budgetCapUSD
      penalty == IF cap # None /\ cap[1] # 0 /\ totals.costUSD > cap[1]
                   THEN (totals.costUSD - cap[1]) * w.overBudgetPenalty * (ScoreScale(b) \div 100)
                   ELSE 0
  IN [days |-> st.chosen, totals |-> totals,
      summary |-> [reuseHits |-> st.hits, varietyScore |-> 0 - penalty],
      scoreSum |-> SumSeq([i \in 1..Len(st.chosen) |-> st.chosen[i].score]) - penalty]

\* pickWeek(pool, weights, constraints)
pickWeek(p, w, cons) ==
  IF Len(p) = 0 THEN NoWeek
  ELSE weekResult(p, Bounds(p), w, cons,
                  pickWeekLoop(p, Bounds(p), w, cons, 0,
                               [chosen |-> <<>>, seen |-> EmptyMap, hits |-> 0]))

\* wrapped is pickWeek(week, weights, constraints):
\* { ...wrapped, days: week.map((r, i) => ({ recipe: r, score: wrapped.days[i]?.score ?? 0 })) }
rescoreWrap(wk, wrapped) ==
  [wrapped EXCEPT
     !.days = [i \in 1..Len(wk) |->
                 [recipe |-> wk[i],
                  score |-> IF i <= Len(wrapped.days) THEN wrapped.days[i].score ELSE 0]]]

rescoreWeek(wk, w, cons) == rescoreWrap(wk, pickWeek(wk, w, cons))

\* ---------------------------------------------------------------- pickWeek inputs
Recipe(id, title, minutes, cost, ingredients, tgs) ==
  [id |-> id, title |-> title, minutes |-> minutes, cost |-> cost,
   ingredients |-> ingredients, tags |-> tgs]

W_nut  == <<"n","u","t">>
W_egg  == <<"e","g","g">>
W_eggs == <<"e","g","g","s">>
W_rice == <<"r","i","c","e">>

\* The recipes a pool is drawn from.  Minutes and costs are close together so
\* that the scaled hard-block score (-1e6 * ScoreScale) stays within 32 bits.
Recipes ==
  { Recipe("pad",  <<"N","u","t","-","P","a","d">>, 31, 3, <<W_rice>>, <<>>),
    Recipe("slaw", <<"S","l","a","w">>,             28, 2, <<<<"N","u","t">>, W_eggs>>, <<<<"r","a","w">>>>),
    Recipe("stew", <<"S","t","e","w">>,             38, 1, <<W_rice>>, <<W_nut>>),
    Recipe("eggs", <<"E","g","g","s">>,             31, 2, <<>>, <<>>),
    Recipe("rice", <<"R","i","c","e">>,             31, 2, <<W_rice>>, <<>>) }

\* what replaceDay is called with: the first day or a day that does not exist,
\* and a recipe that need not be in the pool
EditIndices == {0, 7}
EditRecipes == {r \in Recipes : r.id = "stew"}

RecipePools == UNION {[1..n -> Recipes] : n \in 0..MaxPool}

ForbidLists == { <<>>, <<W_nut>>, <<<<" ","N","U","T"," ">>, W_egg>>, <<W_eggs, W_rice>> }

\* weightsFromMeta, in hundredths
ScoreWeightsSet ==
  { [weightCost |-> wc, weightTime |-> 100 - wc, reuseBonus |-> 12, varietyPenalty |-> 18,
     overBudgetPenalty |-> 60, windowPenalty |-> 40] : wc \in {0, 50, 100} }

ConstraintsSet ==
  { [budgetCapUSD |-> cap, dayWindows |-> dp[1], pantryItems |-> dp[2], forbidTerms |-> f] :
      cap \in {None, Some(0), Some(10)},
      dp \in {<<<<>>, <<>>>>, <<[i \in {1} |-> "le30"], <<<<"R","i","c","e">>>>>>},
      f \in ForbidLists }

PickIdle ==
  /\ pwPool = <<>>
  /\ pwWeights = CHOOSE w \in ScoreWeightsSet : w.weightCost = 50
  /\ pwCons = [budgetCapUSD |-> None, dayWindows |-> <<>>, pantryItems |-> <<>>, forbidTerms |-> <<>>]
  /\ pwPc = "idle"
  /\ pwDay = 0
  /\ pwChosen = <<>>
  /\ seenVariety = EmptyMap
  /\ reuseHits = 0
  /\ pwResult = NoWeek
  /\ week = <<>>

InitPick ==
  /\ pwPool \in RecipePools
  /\ pwWeights \in ScoreWeightsSet
  /\ pwCons \in ConstraintsSet
  /\ pwPc = "start"
  /\ pwDay = 0
  /\ pwChosen = <<>>
  /\ seenVariety = EmptyMap
  /\ reuseHits = 0
  /\ pwResult = NoWeek
  /\ week = <<>>

\* ---------------------------------------------------------------- plan store (week)
\* generateWeek, after pickWeek has returned: state.week = result.days.map(d => d.recipe)
GenerateWeek ==
  /\ pwPc = "done"
  /\ week' = [i \in 1..Len(pwResult.days) |-> pwResult.days[i].recipe]
  /\ pwPc' = "stored"
  /\ UNCHANGED <<pwPool, pwWeights, pwCons, pwDay, pwChosen, seenVariety, reuseHits, pwResult>>
  /\ UNCHANGED notPickVars

\* replaceDay(index, recipe): an index outside 0..6 changes nothing
ReplaceDay ==
  /\ pwPc = "stored"
  /\ \E index \in EditIndices, recipe \in EditRecipes :
        week' = IF index < 0 \/ index > 6 THEN week
                ELSE [i \in 1..SetMax({Len(week), index + 1}) |->
                        IF i = index + 1 THEN recipe
                        ELSE IF i <= Len(week) THEN week[i] ELSE None]
  /\ UNCHANGED <<pwPool, pwWeights, pwCons, pwPc, pwDay, pwChosen, seenVariety, reuseHits, pwResult>>
  /\ UNCHANGED notPickVars

\* rescoreCurrentWeek: a week that is not 7 long is generated again from the
\* candidates
RescoreCurrentWeek ==
  /\ pwPc = "stored"
  /\ IF Len(week) # 7
       THEN /\ pwResult' = pickWeek(pwPool, pwWeights, pwCons)
            /\ week' = [i \in 1..Len(pwResult'.days) |-> pwResult'.days[i].recipe]
       ELSE /\ pwResult' = rescoreWeek(week, pwWeights, pwCons)
            /\ week' = week
  /\ pwPc' = "rescored"
  /\ UNCHANGED <<pwPool, pwWeights, pwCons, pwDay, pwChosen, seenVariety, reuseHits>>
  /\ UNCHANGED notPickVars

PlanIdle ==
  /\ candidates = <<>>
  /\ options = [kind |-> "number", w |-> 50]
  /\ pc = "idle"
  /\ pool = <<>>
  /\ opts = normalizeOpts(options)
  /\ d = 0
  /\ si = 1
  /\ chosen = <<>>
  /\ usedTitles = EmptyMap
  /\ usedFamilies = EmptyMap
  /\ runningCost = 0
  /\ plan = NoPlan
  /\ picks = <<>>

\* ================================================================ mathEngine
\* ---------------------------------------------------------------- numbers
\* A JS number is a fraction in lowest terms with a positive denominator;
\* NaN and the infinities are the one value NotANumber.
RECURSIVE GCD(_, _)
GCD(a, b) == IF b = 0 THEN a ELSE GCD(b, a % b)

Abs(n) == IF n < 0 THEN 0 - n ELSE n

NotANumber == [num |-> 0, den |-> 0]

Rat(n, dd) ==
  IF dd = 0 THEN NotANumber
  ELSE LET g == GCD(Abs(n), Abs(dd))
           sg == IF dd < 0 THEN 0 - 1 ELSE 1
       IN [num |-> sg * (n \div g), den |-> sg * (dd \div g)]

Num(n) == [num |-> n, den |-> 1]

RatFinite(x) == x.den # 0

RatMul(x, y) == IF RatFinite(x) /\ RatFinite(y) THEN Rat(x.num * y.num, x.den * y.den) ELSE NotANumber

RatDiv(x, y) == IF RatFinite(x) /\ RatFinite(y) THEN Rat(x.num * y.den, x.den * y.num) ELSE NotANumber

RatAdd(x, y) ==
  IF RatFinite(x) /\ RatFinite(y)
    THEN LET l == (x.den \div GCD(x.den, y.den)) * y.den
         IN Rat(x.num * (l \div x.den) + y.num * (l \div y.den), l)
    ELSE NotANumber

\* x <= 0, false for NaN as every comparison with NaN is
RatLeqZero(x) == RatFinite(x) /\ x.num <= 0

\* a call returned v, or threw an Error with message msg
Returned(v) == [st |-> "returned", val |-> v]
Threw(msg) == [st |-> "threw", val |-> msg]
\* no call has been made yet
NoRet == [st |-> "none", val |-> <<>>]

\* ---------------------------------------------------------------- units
Units == {"g", "kg", "ml", "l", "tbsp", "tsp", "cup", "unit"}
MASS_UNITS == {"g", "kg"}
VOL_UNITS == {"ml", "l", "tbsp", "tsp", "cup"}
COUNT_UNITS == {"unit"}

TBSP_TO_ML == 15
TSP_TO_ML == 5
CUP_TO_ML == 240

isMass(u) == u \in MASS_UNITS
isVol(u) == u \in VOL_UNITS
isCnt(u) == u \in COUNT_UNITS

\* variant: teaspoon and tablespoon are taken for each other
mlPer_SpoonsSwapped(u) ==
  CASE u = "l" -> 1000 [] u = "ml" -> 1 [] u = "tbsp" -> TSP_TO_ML
    [] u = "tsp" -> TBSP_TO_ML [] u = "cup" -> CUP_TO_ML

\* the two switches of convert: millilitres in one volume unit
mlPer(u) ==
  CASE u = "l" -> 1000 [] u = "ml" -> 1 [] u = "tbsp" -> TBSP_TO_ML
    [] u = "tsp" -> TSP_TO_ML [] u = "cup" -> CUP_TO_ML

\* variant: the final throw is missing, the value passes through
convert_Coerce(value, from, to) ==
  IF from = to THEN Returned(value)
  ELSE IF isMass(from) /\ isMass(to)
    THEN LET g == IF from = "kg" THEN RatMul(value, Num(1000)) ELSE value
         IN Returned(IF to = "kg" THEN RatDiv(g, Num(1000)) ELSE g)
  ELSE IF isVol(from) /\ isVol(to)
    THEN Returned(RatDiv(RatMul(value, Num(mlPer(from))), Num(mlPer(to))))
  ELSE Returned(value)

\* variant: the base amount is kept as a whole number of g or ml
convert_WholeBase(value, from, to) ==
  LET whole(x) == IF RatFinite(x) THEN Num(x.num \div x.den) ELSE x
  IN IF from = to THEN Returned(value)
     ELSE IF isMass(from) /\ isMass(to)
       THEN LET g == whole(IF from = "kg" THEN RatMul(value, Num(1000)) ELSE value)
            IN Returned(IF to = "kg" THEN RatDiv(g, Num(1000)) ELSE g)
     ELSE IF isVol(from) /\ isVol(to)
       THEN Returned(RatDiv(whole(RatMul(value, Num(mlPer(from)))), Num(mlPer(to))))
     ELSE IF isCnt(from) /\ isCnt(to) THEN Returned(value)
     ELSE Threw(<<"Incompatible unit conversion", from, to>>)

convert(value, from, to) ==
  IF from = to THEN Returned(value)
  ELSE IF isMass(from) /\ isMass(to)
    THEN LET g == IF from = "kg" THEN RatMul(value, Num(1000)) ELSE value
         IN Returned(IF to = "kg" THEN RatDiv(g, Num(1000)) ELSE g)
  ELSE IF isVol(from) /\ isVol(to)
    THEN Returned(RatDiv(RatMul(value, Num(mlPer(from))), Num(mlPer(to))))
  ELSE IF isCnt(from) /\ isCnt(to) THEN Returned(value)
  ELSE Threw(<<"Incompatible unit conversion", from, to>>)

\* ---------------------------------------------------------------- normalizeUnit
\* the comparisons of normalizeUnit in the order of the code: the word, the unit
UnitSynonyms ==
  << <<<<"g","r","a","m">>, "g">>,
     <<<<"g","r","a","m","s">>, "g">>,
     <<<<"k","i","l","o","g","r","a","m">>, "kg">>,
     <<<<"k","i","l","o","g","r","a","m","s">>, "kg">>,
     <<<<"k","g","s">>, "kg">>,
     <<<<"m","i","l","l","i","l","i","t","e","r">>, "ml">>,
     <<<<"m","i","l","l","i","l","i","t","e","r","s">>, "ml">>,
     <<<<"c","c">>, "ml">>,
     <<<<"l","i","t","e","r">>, "l">>,
     <<<<"l","i","t","e","r","s">>, "l">>,
     <<<<"t","a","b","l","e","s","p","o","o","n">>, "tbsp">>,
     <<<<"t","a","b","l","e","s","p","o","o","n","s">>, "tbsp">>,
     <<<<"t","e","a","s","p","o","o","n">>, "tsp">>,
     <<<<"t","e","a","s","p","o","o","n","s">>, "tsp">>,
     <<<<"c","u","p","s">>, "cup">>,
     <<<<"p","i","e","c","e">>, "unit">>,
     <<<<"p","i","e","c","e","s">>, "unit">>,
     <<<<"p","c">>, "unit">>,
     <<<<"p","c","s">>, "unit">>,
     <<<<"e","a">>, "unit">>,
     <<<<"e","a","c","h">>, "unit">>,
     <<<<"w","h","o","l","e">>, "unit">> >>

\* the canonical units as the strings they are written with
CanonicalWords ==
  << <<<<"g">>, "g">>,
     <<<<"k","g">>, "kg">>,
     <<<<"m","l">>, "ml">>,
     <<<<"l">>, "l">>,
     <<<<"t","b","s","p">>, "tbsp">>,
     <<<<"t","s","p">>, "tsp">>,
     <<<<"c","u","p">>, "cup">>,
     <<<<"u","n","i","t">>, "unit">> >>

\* the unit of the first entry of table whose word is x, None when there is none
LookUp(table, x) ==
  IF \E i \in 1..Len(table) : table[i][1] = x
    THEN Some(table[CHOOSE i \in 1..Len(table) : table[i][1] = x /\ \A j \in 1..(i - 1) : table[j][1] # x][2])
    ELSE None

\* variant: the string is lower-cased but not trimmed
normalizeUnit_NoTrim(u) ==
  LET x == toLowerCase(u)
  IN IF LookUp(UnitSynonyms, x) # None THEN LookUp(UnitSynonyms, x)[1]
     ELSE IF LookUp(CanonicalWords, x) # None THEN LookUp(CanonicalWords, x)[1]
     ELSE "unit"

normalizeUnit(u) ==
  LET x == toLowerCase(trim(u))
  IN IF LookUp(UnitSynonyms, x) # None THEN LookUp(UnitSynonyms, x)[1]
     ELSE IF LookUp(CanonicalWords, x) # None THEN LookUp(CanonicalWords, x)[1]
     ELSE "unit"

\* ---------------------------------------------------------------- scaling
Pow10(k) == IF k = 2 THEN 100 ELSE 10000

\* +(x).toFixed(k): the multiple of 10^-k nearest to x, a tie going away from 0
toFixed(x, k) ==
  IF ~RatFinite(x) THEN NotANumber
  ELSE LET q == (2 * Abs(x.num) * Pow10(k) + x.den) \div (2 * x.den)
       IN Rat((IF x.num < 0 THEN 0 - q ELSE q), Pow10(k))

\* variant: the digits after the fourth decimal are cut off
scaleRecipe_Truncate(ratio, ingredients) ==
  IF ~RatFinite(ratio) \/ RatLeqZero(ratio) THEN Threw(<<"Invalid scale ratio", ratio>>)
  ELSE Returned([i \in 1..Len(ingredients) |->
         [ingredients[i] EXCEPT !.qty =
            LET x == RatMul(@, ratio)
            IN IF RatFinite(x) THEN Rat((x.num * 10000) \div x.den, 10000) ELSE x]])

\* variant: the guard rejects negative ratios only
scaleRecipe_ZeroAllowed(ratio, ingredients) ==
  IF ~RatFinite(ratio) \/ (RatFinite(ratio) /\ ratio.num < 0)
    THEN Threw(<<"Invalid scale ratio", ratio>>)
  ELSE Returned([i \in 1..Len(ingredients) |->
         [ingredients[i] EXCEPT !.qty = toFixed(RatMul(@, ratio), 4)]])

scaleRecipe(ratio, ingredients) ==
  IF ~RatFinite(ratio) \/ RatLeqZero(ratio) THEN Threw(<<"Invalid scale ratio", ratio>>)
  ELSE Returned([i \in 1..Len(ingredients) |->
         [ingredients[i] EXCEPT !.qty = toFixed(RatMul(@, ratio), 4)]])

\* ---------------------------------------------------------------- pricing
\* the words of the regular expression of toPriceKey
Descriptors ==
  << <<"f","r","e","s","h">>,
     <<"c","h","o","p","p","e","d">>,
     <<"d","i","c","e","d">>,
     <<"m","i","n","c","e","d">>,
     <<"b","o","n","e","l","e","s","s">>,
     <<"s","k","i","n","l","e","s","s">>,
     <<"l","a","r","g","e">>,
     <<"s","m","a","l","l">>,
     <<"o","r","g","a","n","i","c">> >>

\* \w of a regular expression
IsWordCh(ch) == IsAlnum(ToLowerCh(ch)) \/ ch = "_"

\* the word w stands in s at position i, in any case, between two word boundaries
DescriptorAt(s, i, w) ==
  /\ i + Len(w) - 1 <= Len(s)
  /\ \A k \in 1..Len(w) : ToLowerCh(s[i + k - 1]) = w[k]
  /\ i = 1 \/ ~IsWordCh(s[i - 1])
  /\ i + Len(w) > Len(s) \/ ~IsWordCh(s[i + Len(w)])

\* .replace(/\b(fresh|...|organic)\b/gi, "") from position i on
RECURSIVE StripDescriptors(_, _)
StripDescriptors(s, i) ==
  IF i > Len(s) THEN <<>>
  ELSE IF \E n \in 1..Len(Descriptors) : DescriptorAt(s, i, Descriptors[n])
    THEN LET n == CHOOSE n \in 1..Len(Descriptors) : DescriptorAt(s, i, Descriptors[n])
         IN StripDescriptors(s, i + Len(Descriptors[n]))
  ELSE <<s[i]>> \o StripDescriptors(s, i + 1)

\* .replace(/\s+/g, " ")
RECURSIVE CollapseSpaces(_)
CollapseSpaces(s) ==
  IF s = <<>> THEN <<>>
  ELSE IF Head(s) \in SpaceChars
    THEN IF Len(s) > 1 /\ s[2] \in SpaceChars THEN CollapseSpaces(Tail(s))
         ELSE <<" ">> \o CollapseSpaces(Tail(s))
  ELSE <<Head(s)>> \o CollapseSpaces(Tail(s))

\* normalize of lib/livePricing.ts
normName(name) == CollapseSpaces(toLowerCase(trim(name)))

toPriceKey(name) == normName(trim(CollapseSpaces(StripDescriptors(name, 1))))

\* priceBook[key], None when the book has no such entry
PriceOf(priceBook, key) == IF key \in DOMAIN priceBook THEN Some(priceBook[key]) ELSE None

\* the loop of totalCost over the first ingredients: the running total
RECURSIVE TotalOver(_, _)
TotalOver(ingredients, priceBook) ==
  IF ingredients = <<>> THEN Num(0)
  ELSE LET n == Len(ingredients)
           ing == ingredients[n]
           total == TotalOver(SubSeq(ingredients, 1, n - 1), priceBook)
           price == PriceOf(priceBook, toPriceKey(ing.name))
       IN IF price = None THEN total
          ELSE LET q == convert(ing.qty, ing.unit, price[1].unit)
               IN IF q.st = "threw" THEN total
                  ELSE RatAdd(total, RatMul(q.val, price[1].amount))

\* variant: every ingredient's cost is rounded to cents before it is added
RECURSIVE totalCost_RoundEach(_, _)
totalCost_RoundEach(ingredients, priceBook) ==
  IF ingredients = <<>> THEN Num(0)
  ELSE LET n == Len(ingredients)
           ing == ingredients[n]
           total == totalCost_RoundEach(SubSeq(ingredients, 1, n - 1), priceBook)
           price == PriceOf(priceBook, toPriceKey(ing.name))
       IN IF price = None THEN total
          ELSE LET q == convert(ing.qty, ing.unit, price[1].unit)
               IN IF q.st = "threw" THEN total
                  ELSE RatAdd(total, toFixed(RatMul(q.val, price[1].amount), 2))

totalCost(ingredients, priceBook) == toFixed(TotalOver(ingredients, priceBook), 2)

\* variant: a row gets a cost only when the ingredient is in the unit of its price
costBreakdown_SameUnitOnly(ingredients, priceBook) ==
  [i \in 1..Len(ingredients) |->
    LET ing == ingredients[i]
        price == PriceOf(priceBook, toPriceKey(ing.name))
        bare == [name |-> ing.name, qty |-> ing.qty, unit |-> ing.unit,
                 unitPricedAs |-> None, cost |-> None]
    IN IF price = None THEN bare
       ELSE IF ing.unit # price[1].unit THEN bare
       ELSE [name |-> ing.name, qty |-> ing.qty, unit |-> ing.unit,
             unitPricedAs |-> Some(price[1].unit),
             cost |-> Some(toFixed(RatMul(ing.qty, price[1].amount), 2))]]

\* variant: a row without a price gets the cost 0
costBreakdown_ZeroCost(ingredients, priceBook) ==
  [i \in 1..Len(ingredients) |->
    LET ing == ingredients[i]
        price == PriceOf(priceBook, toPriceKey(ing.name))
        bare == [name |-> ing.name, qty |-> ing.qty, unit |-> ing.unit,
                 unitPricedAs |-> None, cost |-> Some(Num(0))]
    IN IF price = None THEN bare
       ELSE LET q == convert(ing.qty, ing.unit, price[1].unit)
            IN IF q.st = "threw" THEN bare
               ELSE [name |-> ing.name, qty |-> ing.qty, unit |-> ing.unit,
                     unitPricedAs |-> Some(price[1].unit),
                     cost |-> Some(toFixed(RatMul(q.val, price[1].amount), 2))]]

costBreakdown(ingredients, priceBook) ==
  [i \in 1..Len(ingredients) |->
    LET ing == ingredients[i]
        price == PriceOf(priceBook, toPriceKey(ing.name))
        bare == [name |-> ing.name, qty |-> ing.qty, unit |-> ing.unit,
                 unitPricedAs |-> None, cost |-> None]
    IN IF price = None THEN bare
       ELSE LET q == convert(ing.qty, ing.unit, price[1].unit)
            IN IF q.st = "threw" THEN bare
               ELSE [name |-> ing.name, qty |-> ing.qty, unit |-> ing.unit,
                     unitPricedAs |-> Some(price[1].unit),
                     cost |-> Some(toFixed(RatMul(q.val, price[1].amount), 2))]]

\* ---------------------------------------------------------------- inputs
MaxIngredients == 3

Values ==
  { Num(0), Num(1), Num(2), Num(3), Num(240), Num(250), Num(500),
    Rat(1, 3), Rat(5, 2), Num(0 - 1), NotANumber }

Ratios ==
  { Num(2), Num(1), Rat(1, 2), Rat(1, 3), Rat(1, 100),
    Num(0), Num(0 - 1), Rat(0 - 1, 2), NotANumber }

Ingredient(name, qty, unit) == [name |-> name, qty |-> qty, unit |-> unit]

N_milk == <<"m","i","l","k">>
N_flour == <<"f","l","o","u","r">>
N_egg == <<"e","g","g">>
N_spinach == <<"s","p","i","n","a","c","h">>

\* the ingredients of the recipes that are scaled
ScaleIngredients ==
  { Ingredient(N_milk, Num(250), "ml"),
    Ingredient(N_flour, Num(200), "g"),
    Ingredient(N_egg, Num(1), "unit"),
    Ingredient(<<"s","a","l","t">>, Rat(1, 1000), "kg"),
    Ingredient(<<"o","i","l">>, Rat(5, 2), "tbsp") }

\* the ingredients that are priced: the three of the tests, a name with a
\* descriptor and odd spacing, an unpriced one, one weighed where the price is
\* per volume, one worth less than half a cent
CostIngredients ==
  { Ingredient(<<"M","i","l","k">>, Num(500), "ml"),
    Ingredient(<<"F","l","o","u","r">>, Num(300), "g"),
    Ingredient(<<"E","g","g">>, Num(2), "unit"),
    Ingredient(<<" ","F","r","e","s","h"," "," ","m","i","l","k">>, Num(1), "cup"),
    Ingredient(<<"S","p","i","n","a","c","h">>, Num(100), "g"),
    Ingredient(<<"m","i","l","k">>, Num(100), "g"),
    Ingredient(<<"M","I","L","K">>, Num(3), "ml") }

ListsOf(S) == UNION {[1..n -> S] : n \in 0..MaxIngredients}

PricePer(unit, amount) == [unit |-> unit, amount |-> amount]

\* the price book of the tests and one with other units and entries
PriceBooks ==
  { [k \in {N_milk, N_flour, N_egg} |->
       CASE k = N_milk -> PricePer("ml", Rat(1, 800))
         [] k = N_flour -> PricePer("g", Rat(1, 500))
         [] k = N_egg -> PricePer("unit", Rat(1, 4))],
    [k \in {N_milk, N_spinach} |->
       CASE k = N_milk -> PricePer("l", Rat(5, 4))
         [] k = N_spinach -> PricePer("kg", Num(3))] }

\* a unit word as a caller may write it: as it is, in capitals, capitalized,
\* between blanks
UpperOf ==
  [ch \in {LowerChars[i] : i \in 1..26} |-> UpperChars[CHOOSE i \in 1..26 : LowerChars[i] = ch]]

ToUpperCh(ch) == IF ch \in DOMAIN UpperOf THEN UpperOf[ch] ELSE ch

Spellings(w) ==
  { w,
    [i \in 1..Len(w) |-> ToUpperCh(w[i])],
    [i \in 1..Len(w) |-> IF i = 1 THEN ToUpperCh(w[i]) ELSE w[i]],
    <<" ">> \o w \o <<"\t", " ">>,
    <<"\n">> \o [i \in 1..Len(w) |-> ToUpperCh(w[i])] }

\* strings that are neither a synonym nor a canonical unit
UnknownWords ==
  { <<"l","b">>,
    <<"o","z">>,
    <<"l","i","t","r","e">>,
    <<"g","s">>,
    <<>>,
    <<"c","u","p"," ","s">>,
    <<"k"," ","g">>,
    <<"t","b","s">> }

UnitWords ==
  {UnitSynonyms[i][1] : i \in 1..Len(UnitSynonyms)} \cup
  {CanonicalWords[i][1] : i \in 1..Len(CanonicalWords)} \cup UnknownWords

NormalizeCalls == UNION {{[op |-> "normalizeUnit", word |-> w, text |-> t] : t \in Spellings(w)} : w \in UnitWords}

ConvertCalls == {[op |-> "convert", value |-> v, from |-> a, to |-> b] : v \in Values, a \in Units, b \in Units}

ScaleCalls == {[op |-> "scaleRecipe", ratio |-> r, ingredients |-> l] : r \in Ratios, l \in ListsOf(ScaleIngredients)}

CostCalls == {[op |-> "cost", ingredients |-> l, priceBook |-> b] : l \in ListsOf(CostIngredients), b \in PriceBooks}

\* ---------------------------------------------------------------- actions
MathIdle ==
  /\ mCall = [op |-> "none"]
  /\ mRet = NoRet
  /\ mBack = NoRet
  /\ mRows = NoRet

InitMath ==
  /\ mCall \in ConvertCalls \cup ScaleCalls \cup CostCalls \cup NormalizeCalls
  /\ mRet = NoRet
  /\ mBack = NoRet
  /\ mRows = NoRet

\* convert(value, from, to)
Convert ==
  /\ mCall.op = "convert"
  /\ mRet.st = "none"
  /\ mRet' = convert(mCall.value, mCall.from, mCall.to)
  /\ UNCHANGED <<mCall, mBack, mRows>>
  /\ UNCHANGED notMathVars

\* the result of convert is converted back: convert(result, to, from)
ConvertBack ==
  /\ mCall.op = "convert"
  /\ mRet.st = "returned"
  /\ mBack.st = "none"
  /\ mBack' = convert(mRet.val, mCall.to, mCall.from)
  /\ UNCHANGED <<mCall, mRet, mRows>>
  /\ UNCHANGED notMathVars

\* scaleRecipe(ratio, ingredients); the argument list is not written to
ScaleRecipe ==
  /\ mCall.op = "scaleRecipe"
  /\ mRet.st = "none"
  /\ mRet' = scaleRecipe(mCall.ratio, mCall.ingredients)
  /\ UNCHANGED <<mCall, mBack, mRows>>
  /\ UNCHANGED notMathVars

\* totalCost(ingredients, priceBook)
TotalCost ==
  /\ mCall.op = "cost"
  /\ mRet.st = "none"
  /\ mRet' = Returned(totalCost(mCall.ingredients, mCall.priceBook))
  /\ UNCHANGED <<mCall, mBack, mRows>>
  /\ UNCHANGED notMathVars

\* costBreakdown(ingredients, priceBook)
CostBreakdown ==
  /\ mCall.op = "cost"
  /\ mRows.st = "none"
  /\ mRows' = Returned(costBreakdown(mCall.ingredients, mCall.priceBook))
  /\ UNCHANGED <<mCall, mRet, mBack>>
  /\ UNCHANGED notMathVars

\* the string a unit is written with
UnitText(u) == CanonicalWords[CHOOSE i \in 1..Len(CanonicalWords) : CanonicalWords[i][2] = u][1]

\* normalizeUnit(text)
NormalizeUnit ==
  /\ mCall.op = "normalizeUnit"
  /\ mRet.st = "none"
  /\ mRet' = Returned(normalizeUnit(mCall.text))
  /\ UNCHANGED <<mCall, mBack, mRows>>
  /\ UNCHANGED notMathVars

\* normalizeUnit applied to what normalizeUnit returned
NormalizeAgain ==
  /\ mCall.op = "normalizeUnit"
  /\ mRet.st = "returned"
  /\ mBack.st = "none"
  /\ mBack' = Returned(normalizeUnit(UnitText(mRet.val)))
  /\ UNCHANGED <<mCall, mRet, mRows>>
  /\ UNCHANGED notMathVars

\* ---------------------------------------------------------------- specifications
\* the functions of lib/mathEngine.ts on every call drawn from the inputs
\* ================================================================ planStore
\* A Meal; an absent `locked` is written FALSE, which is how every test of it
\* (a?.locked, !m.locked) reads it.  Costs are exact fractions of a dollar.
Meal(id, name, slot, timeMins, costUSD, locked) ==
  [id |-> id, name |-> name, slot |-> slot, ingredients |-> <<>>, tags |-> <<>>,
   timeMins |-> timeMins, costUSD |-> costUSD, source |-> "ai", locked |-> locked]

emptyDay == [slots |-> [s \in MealSlots |-> None]]

\* defaultWeek(): seven empty days; updatedAt counts the patches made so far
defaultWeek ==
  [days |-> [i \in 1..7 |-> emptyDay], budgetUSD |-> 70, timeVsMoney |-> 50,
   updatedAt |-> 0, version |-> 1]

\* w.days[day].slots[slot], days counted from 0
CellOf(w, day, slot) == w.days[day + 1].slots[slot]

SetCell(w, day, slot, m) == [w EXCEPT !.days[day + 1].slots[slot] = m]

IsLocked(m) == m # None /\ m.locked

\* the id nanoid() returns
NanoId == "nanoid"

\* patch: the week handed to fn is the stored week, or the default week when
\* none is stored, with a new updatedAt
patchBase == [(IF weekPlan = None THEN defaultWeek ELSE weekPlan) EXCEPT !.updatedAt = @ + 1]

\* variant: only the first end of a swap is tested for a lock
swap_FirstEndOnly(w, dayA, slotA, dayB, slotB) ==
  LET a == CellOf(w, dayA, slotA)
      b == CellOf(w, dayB, slotB)
  IN IF IsLocked(a) THEN w
     ELSE SetCell(SetCell(w, dayA, slotA, b), dayB, slotB, a)

swap(w, dayA, slotA, dayB, slotB) ==
  LET a == CellOf(w, dayA, slotA)
      b == CellOf(w, dayB, slotB)
  IN IF IsLocked(a) \/ IsLocked(b) THEN w
     ELSE SetCell(SetCell(w, dayA, slotA, b), dayB, slotB, a)

\* { ...meal, id: meal.id || nanoid(), slot }
replace(w, day, slot, meal) ==
  IF IsLocked(CellOf(w, day, slot)) THEN w
  ELSE SetCell(w, day, slot,
               [meal EXCEPT !.id = IF meal.id = "" THEN NanoId ELSE meal.id, !.slot = slot])

lock(w, day, slot, locked) ==
  IF CellOf(w, day, slot) # None
    THEN SetCell(w, day, slot, [CellOf(w, day, slot) EXCEPT !.locked = locked])
    ELSE w

\* the cells that hold an unlocked meal
flat(w) ==
  {c \in (1..Len(w.days)) \X MealSlots :
     w.days[c[1]].slots[c[2]] # None /\ ~ w.days[c[1]].slots[c[2]].locked}

\* Math.max(0, m.costUSD + per)
RaisedCost(cost, per) ==
  IF RatLeqZero(RatAdd(cost, per)) THEN Num(0) ELSE RatAdd(cost, per)

\* Math.round(delta / n), n > 0: halves go up
RoundDiv(delta, n) == (2 * delta + n) \div (2 * n)

optimize(w, target, delta) ==
  IF flat(w) = {} THEN w
  ELSE [w EXCEPT !.days =
         [i \in 1..Len(w.days) |->
            [slots |-> [s \in MealSlots |->
               IF <<i, s>> \notin flat(w) THEN w.days[i].slots[s]
               ELSE IF target = "cost"
                 THEN [w.days[i].slots[s] EXCEPT
                         !.costUSD = RaisedCost(@, Rat(delta, Cardinality(flat(w))))]
                 ELSE [w.days[i].slots[s] EXCEPT
                         !.timeMins = SetMax({1, @ + RoundDiv(delta, Cardinality(flat(w)))})]]]]]

\* the meal fillGaps puts into an empty cell
GapMeal(slot) ==
  [id |-> NanoId,
   name |-> IF slot = "breakfast" THEN "Oatmeal & Fruit" ELSE "Pasta Pomodoro",
   slot |-> slot, ingredients |-> <<>>, tags |-> <<"protein:veg", "cuisine:generic">>,
   timeMins |-> IF slot = "breakfast" THEN 6 ELSE 18,
   costUSD |-> IF slot = "breakfast" THEN Rat(12, 10) ELSE Rat(38, 10),
   source |-> "deterministic", locked |-> FALSE]

fillGaps(w) ==
  [w EXCEPT !.days =
     [i \in 1..Len(w.days) |->
        [slots |-> [s \in MealSlots |->
           IF w.days[i].slots[s] = None THEN GapMeal(s) ELSE w.days[i].slots[s]]]]]

\* ---------------------------------------------------------------- planStore inputs
MaxStoreDays == 2
MaxCmds == 3

Soup  == Meal("m1", "Soup",  "lunch",     20, Num(4), TRUE)
Curry == Meal("m2", "Curry", "dinner",    30, Num(6), FALSE)
Toast == Meal("m3", "Toast", "breakfast",  5, Num(1), FALSE)

\* the meals replace is called with: one without an id, one that comes locked
NewMeals ==
  { Meal("",   "Salad", "lunch",  10, Num(3), FALSE),
    Meal("m9", "Stock", "dinner", 45, Num(2), TRUE) }

MiddayDay == [slots |-> [s \in MealSlots |->
                CASE s = "lunch" -> Soup [] s = "dinner" -> Curry [] OTHER -> None]]
MorningDay == [slots |-> [s \in MealSlots |-> IF s = "breakfast" THEN Toast ELSE None]]

StoredWeek(days) ==
  [days |-> days, budgetUSD |-> 70, timeVsMoney |-> 50, updatedAt |-> 0, version |-> 1]

\* the weeks load() finds stored: every meal sits in the cell its slot field names
StoredWeeks ==
  { StoredWeek([i \in 1..MaxStoreDays |-> emptyDay]),
    StoredWeek([i \in 1..MaxStoreDays |-> IF i = 1 THEN MiddayDay ELSE MorningDay]),
    StoredWeek([i \in 1..MaxStoreDays |-> IF i = 1 THEN MorningDay ELSE MiddayDay]) }

\* the cells the commands name
CmdDays == 0..(MaxStoreDays - 1)
CmdSlots == {"breakfast", "lunch", "dinner"}
Deltas == {0 - 5, 5}

\* ---------------------------------------------------------------- planStore actions
StoreIdle == weekPlan = None

\* the store as created (week: null) or after load()
InitStore == weekPlan \in StoredWeeks \cup {None}

CanPatch == IF weekPlan = None THEN TRUE ELSE weekPlan.updatedAt < MaxCmds

Swap ==
  /\ CanPatch
  /\ \E dayA \in CmdDays, dayB \in CmdDays, slotA \in CmdSlots, slotB \in CmdSlots :
        weekPlan' = swap(patchBase, dayA, slotA, dayB, slotB)
  /\ UNCHANGED notStoreVars

Replace ==
  /\ CanPatch
  /\ \E day \in CmdDays, slot \in CmdSlots, meal \in NewMeals :
        weekPlan' = replace(patchBase, day, slot, meal)
  /\ UNCHANGED notStoreVars

Lock ==
  /\ CanPatch
  /\ \E day \in CmdDays, slot \in CmdSlots, locked \in BOOLEAN :
        weekPlan' = lock(patchBase, day, slot, locked)
  /\ UNCHANGED notStoreVars

Optimize ==
  /\ CanPatch
  /\ \E target \in {"cost", "time"}, delta \in Deltas :
        weekPlan' = optimize(patchBase, target, delta)
  /\ UNCHANGED notStoreVars

FillGaps ==
  /\ CanPatch
  /\ weekPlan' = fillGaps(patchBase)
  /\ UNCHANGED notStoreVars

\* ================================================================ specifications
InitMathEngine == PlanIdle /\ PickIdle /\ InitMath /\ StoreIdle
NextMath ==
  \/ Convert \/ ConvertBack \/ ScaleRecipe \/ TotalCost \/ CostBreakdown
  \/ NormalizeUnit \/ NormalizeAgain
SpecMath == InitMathEngine /\ [][NextMath]_vars

\* planWeek on every pool and option set
Init == InitPlan /\ PickIdle /\ MathIdle /\ StoreIdle
Next == PlanWeekEmpty \/ PlanWeekBegin \/ VisitCell \/ PlanWeekFinish
Spec == Init /\ [][Next]_vars

\* planWeek on pools where most candidates have a non-finite cost or minutes
BrokenCatalogue ==
  { Cand("tea", <<"T","e","a">>, 10, NonFinite, <<>>, Some(100), Some(100)),
    Cand("ice", <<"I","c","e">>, NonFinite, 1, <<SlotTag("dinner")>>, Some(100), None),
    Cand("fog", <<"F","o","g">>, NonFinite, NonFinite, <<>>, None, None),
    Cand("pie", <<"P","i","e">>, 10, 2, <<>>, Some(80), Some(90)) }

BrokenPools == UNION {[1..n -> BrokenCatalogue] : n \in 0..(MaxPool + 1)}

InitDegenerate ==
  /\ candidates \in BrokenPools
  /\ options \in RawOptions
  /\ pc = "start"
  /\ pool = <<>>
  /\ opts = normalizeOpts(options)
  /\ d = 0
  /\ si = 1
  /\ chosen = <<>>
  /\ usedTitles = EmptyMap
  /\ usedFamilies = EmptyMap
  /\ runningCost = 0
  /\ plan = NoPlan
  /\ picks = <<>>
  /\ PickIdle
  /\ MathIdle
  /\ StoreIdle

SpecDegenerate == InitDegenerate /\ [][Next]_vars

\* pickWeek on every pool, weights and constraints
InitPickWeek == PlanIdle /\ InitPick /\ MathIdle /\ StoreIdle
NextPickWeek ==
  PickWeekEmpty \/ PickDay \/ PickWeekFinish \/ GenerateWeek \/ ReplaceDay \/ RescoreCurrentWeek
SpecPickWeek == InitPickWeek /\ [][NextPickWeek]_vars

\* the plan store under every short sequence of its commands
InitPlanStore == PlanIdle /\ PickIdle /\ MathIdle /\ InitStore
NextStore == Swap \/ Replace \/ Lock \/ Optimize \/ FillGaps
SpecStore == InitPlanStore /\ [][NextStore]_vars

\* ================================================================ properties
\* ---------------------------------------------------------------- helpers
Cells == {<<dd, k>> : dd \in 0..(opts.days - 1), k \in 1..Len(daySlots)}

CellFilled(slots, dd, slot) ==
  \E i \in 1..Len(slots) : slots[i].dayIndex = dd /\ slots[i].slot = slot

AllCellsFilled(slots) == \A c \in Cells : CellFilled(slots, c[1], daySlots[c[2]])

TitleUses(slots, key) == Cardinality({i \in 1..Len(slots) : titleKey(slots[i].recipe.title) = key})

\* the first phase of the ladder that admits a candidate, 0 when none does
FirstPhase(p, dayIndex, slot, used, chosenSlots, o) ==
  LET open == {k \in 1..Len(Phases) :
                 PhaseList(Phases[k], p, dayIndex, slot, used, chosenSlots, o) # <<>>}
  IN IF open = {} THEN 0 ELSE SetMin(open)

\* the step that visits the cell (d, daySlots[si])
IsVisit == pc = "loop" /\ d < opts.days /\ Len(picks') = Len(picks) + 1

\* ---------------------------------------------------------------- C1
\* C1 (hard exclusion, pickWeek): no recipe placed in the week matches a forbid
\* term in its title, ingredients or tags, on any day, fallback days included.
C1_HardExclusion ==
  \A i \in 1..Len(pwChosen) :
     ~ hasForbiddenTerms(<<pwChosen[i].recipe.title>> \o pwChosen[i].recipe.ingredients
                           \o pwChosen[i].recipe.tags, pwCons.forbidTerms)

FlexibleTitles ==
  {titleKey(pool[i].title) :
     i \in {j \in 1..Len(pool) :
              \A k \in 1..Len(daySlots) : isSlotCompatibleWithFallback(pool[j], daySlots[k], 1)}}

EnoughFlexible ==
  Cardinality(FlexibleTitles) * opts.maxRepeatsPerWeek >= opts.days * Len(daySlots)

C3_RepeatCap ==
  /\ \A i \in 1..Len(chosen) :
        TitleUses(chosen, titleKey(chosen[i].recipe.title)) <= opts.maxRepeatsPerWeek
  /\ \A i \in 1..Len(plan.slots) :
        TitleUses(plan.slots, titleKey(plan.slots[i].recipe.title)) <= opts.maxRepeatsPerWeek

\* a returned plan in which two spellings of one title together reach the cap and
\* a cell stayed empty
C3_Witness ==
  /\ pc = "done"
  /\ \E i, j \in 1..Len(plan.slots) :
        /\ plan.slots[i].recipe.title # plan.slots[j].recipe.title
        /\ titleKey(plan.slots[i].recipe.title) = titleKey(plan.slots[j].recipe.title)
        /\ TitleUses(plan.slots, titleKey(plan.slots[i].recipe.title)) = opts.maxRepeatsPerWeek
  /\ \E k \in 1..Len(picks) : picks[k].idx = 0

\* ---------------------------------------------------------------- C4
\* the candidates of list with the least score, as pool indices
MinScored(list, score) ==
  {i \in Range(list) : \A k \in Range(list) : score[i] <= score[k]}

\* C4 (determinism): the pick of a cell is fixed by the inputs and the tracking
\* state: it is the candidate that comes first in pool order among those of
\* least score in the first phase that admits a candidate.
C4_Determinism ==
  [][ IsVisit =>
        \A ph \in {FirstPhase(pool, d, daySlots[si], usedTitles, chosen, opts)} :
           IF ph = 0 THEN picks'[Len(picks')].idx = 0
           ELSE picks'[Len(picks')].idx = SetMin(MinScored(
                   PhaseList(Phases[ph], pool, d, daySlots[si], usedTitles, chosen, opts),
                   Scores(pool, runningCost, usedFamilies, opts)))
    ]_vars

\* the first cell of a run, where two candidates of phase A tie for the least
\* score and the one that comes first in the pool was taken
C4_Witness ==
  /\ Len(picks) = 1
  /\ picks[1].phase = 1
  /\ LET list == PhaseList("A", pool, 0, daySlots[1], EmptyMap, <<>>, opts)
         best == MinScored(list, Scores(pool, 0, EmptyMap, opts))
     IN /\ Cardinality(best) >= 2
        /\ picks[1].idx = SetMin(best)
        /\ \E j \in best : pool[j].id # pool[picks[1].idx].id

\* ---------------------------------------------------------------- C5
\* C5 (phase ladder): the candidate put into a cell satisfies the predicate of
\* the first phase, in the order A..E, that admits any candidate.
C5_PhaseLadder ==
  [][ (IsVisit /\ Len(chosen') = Len(chosen) + 1) =>
        \A ph \in {FirstPhase(pool, d, daySlots[si], usedTitles, chosen, opts)} :
           /\ ph # 0
           /\ \E i \in 1..Len(pool) :
                 /\ PhasePass(Phases[ph], pool[i], d, daySlots[si], usedTitles, chosen, opts)
                 /\ pool[i].id = chosen'[Len(chosen')].recipe.id
                 /\ pool[i].title = chosen'[Len(chosen')].recipe.title
    ]_vars

\* the first cell of a run, filled in phase A although a candidate that only
\* phase D admits has a lower score
C5_Witness ==
  /\ Len(picks) = 1
  /\ picks[1].phase = 1
  /\ \E j \in 1..Len(pool) :
        /\ ~ PhasePass("A", pool[j], 0, daySlots[1], EmptyMap, <<>>, opts)
        /\ ~ PhasePass("C", pool[j], 0, daySlots[1], EmptyMap, <<>>, opts)
        /\ PhasePass("D", pool[j], 0, daySlots[1], EmptyMap, <<>>, opts)
        /\ Scores(pool, 0, EmptyMap, opts)[j] < Scores(pool, 0, EmptyMap, opts)[picks[1].idx]

\* ---------------------------------------------------------------- C6
\* C6 (coverage shortfall): a visited cell gets no PlanSlot exactly when all five
\* phases admit no candidate; a PlanSlot that is added is for the visited cell
\* and carries the id, title, minutes and cost of one candidate of the pool; and
\* the loop goes on to the following cell either way.
C6_Shortfall ==
  [][ IsVisit =>
        LET slot == daySlots[si]
            ph == FirstPhase(pool, d, slot, usedTitles, chosen, opts)
        IN /\ (chosen' = chosen) <=> (ph = 0)
           /\ chosen' # chosen =>
                 /\ Len(chosen') = Len(chosen) + 1
                 /\ SubSeq(chosen', 1, Len(chosen)) = chosen
                 /\ chosen'[Len(chosen')].dayIndex = d
                 /\ chosen'[Len(chosen')].slot = slot
                 /\ \E i \in 1..Len(pool) :
                       /\ chosen'[Len(chosen')].recipe.id = pool[i].id
                       /\ chosen'[Len(chosen')].recipe.title = pool[i].title
                       /\ chosen'[Len(chosen')].recipe.minutes = pool[i].minutes
                       /\ chosen'[Len(chosen')].recipe.costUSD = pool[i].costUSD
           /\ pc' = "loop"
           /\ <<d', si'>> = IF si < Len(daySlots) THEN <<d, si + 1>> ELSE <<d + 1, 1>>
    ]_vars

\* a returned plan with an empty cell followed by a filled one
C6_Witness ==
  /\ pc = "done"
  /\ Len(plan.slots) > 0
  /\ \E k, m \in 1..Len(picks) : k < m /\ picks[k].idx = 0 /\ picks[m].idx # 0

\* ---------------------------------------------------------------- C7
\* C7 (untagged candidates): a candidate without a slot tag is only ever put
\* into a lunch or a dinner cell.
C7_UntaggedMidday ==
  \A k \in 1..Len(picks) :
     (picks[k].idx # 0 /\ \A i \in 1..Len(pool[picks[k].idx].tags) :
                              pool[picks[k].idx].tags[i].k # "slot")
       => picks[k].slot \in {"lunch", "dinner"}

\* ---------------------------------------------------------------- C8
SlotTagsOf(c) == {c.tags[i].v : i \in {j \in 1..Len(c.tags) : c.tags[j].k = "slot"}}

\* the neighbour sets of the broadened rule
Neighbours(slot) ==
  CASE slot = "breakfast" -> {"breakfast", "snack"}
    [] slot = "lunch"     -> {"lunch", "dinner", "untagged"}
    [] slot = "dinner"    -> {"dinner", "lunch", "untagged"}
    [] slot = "snack"     -> {"snack", "breakfast", "lunch"}
    [] slot = "dessert"   -> {"dessert", "snack"}

InNeighbours(c, slot) ==
  IF SlotTagsOf(c) = {} THEN "untagged" \in Neighbours(slot)
  ELSE SlotTagsOf(c) \cap Neighbours(slot) # {}

\* C8 (slot compatibility table): under the exact rule a candidate fits a slot iff
\* it carries the slot's tag, or it is untagged and the slot is lunch or dinner;
\* under the broadened rule iff its slot tag is in the slot's neighbour set.
C8_SlotTable ==
  \A i \in 1..Len(pool) : \A slot \in MealSlots :
     /\ isSlotCompatibleWithFallback(pool[i], slot, 0)
          <=> (slot \in SlotTagsOf(pool[i])
               \/ (SlotTagsOf(pool[i]) = {} /\ slot \in {"lunch", "dinner"}))
     /\ isSlotCompatibleWithFallback(pool[i], slot, 1) <=> InNeighbours(pool[i], slot)

\* ---------------------------------------------------------------- C9
OnDay(slots, dayIndex, title) ==
  \E i \in 1..Len(slots) :
     slots[i].dayIndex = dayIndex /\ titleKey(slots[i].recipe.title) = titleKey(title)

\* C9 (adjacent-day block): with noAdjacentSameTitle on, a candidate whose title
\* is in a cell of day d-1 is not admissible for a cell of day d in phases B and
\* D, so a cell that repeats a title of the day before was filled in phase C or E.
C9_AdjacentBlock ==
  opts.noAdjacentSameTitle =>
    /\ (pc = "loop" /\ d < opts.days) =>
          \A i \in 1..Len(pool) :
             OnDay(chosen, d - 1, pool[i].title) =>
               /\ ~ PhasePass("B", pool[i], d, daySlots[si], usedTitles, chosen, opts)
               /\ ~ PhasePass("D", pool[i], d, daySlots[si], usedTitles, chosen, opts)
    /\ \A k \in 1..Len(picks) :
          (picks[k].idx # 0 /\ OnDay(chosen, picks[k].dayIndex - 1, pool[picks[k].idx].title))
            => Phases[picks[k].phase] \in {"C", "E"}

\* a plan in which a title sits on two consecutive days, once through phase C
\* and once through phase E
C9_Witness ==
  /\ opts.noAdjacentSameTitle
  /\ \E k \in 1..Len(picks) :
        /\ picks[k].idx # 0 /\ Phases[picks[k].phase] = "C"
        /\ OnDay(chosen, picks[k].dayIndex - 1, pool[picks[k].idx].title)
  /\ \E k \in 1..Len(picks) :
        /\ picks[k].idx # 0 /\ Phases[picks[k].phase] = "E"
        /\ OnDay(chosen, picks[k].dayIndex - 1, pool[picks[k].idx].title)

\* ---------------------------------------------------------------- C10
FamilyOf(c) ==
  <<IF \E i \in 1..Len(c.tags) : c.tags[i].k = "prot"
      THEN c.tags[SetMin({i \in 1..Len(c.tags) : c.tags[i].k = "prot"})] ELSE ProtTag("none"),
    IF \E i \in 1..Len(c.tags) : c.tags[i].k = "cuisine"
      THEN c.tags[SetMin({i \in 1..Len(c.tags) : c.tags[i].k = "cuisine"})] ELSE CuisineTag("gen")>>

\* the pool indices picked so far, in order
Picked == FilterIdx([k \in 1..Len(picks) |-> picks[k].idx # 0], 1)

Tracked ==
  /\ Len(Picked) = Len(chosen)
  /\ \A key \in (DOMAIN usedTitles) \cup {titleKey(pool[i].title) : i \in 1..Len(pool)} :
        MapGet(usedTitles, key) = TitleUses(chosen, key)
  /\ \A fam \in (DOMAIN usedFamilies) \cup {FamilyOf(pool[i]) : i \in 1..Len(pool)} :
        MapGet(usedFamilies, fam)
          = Cardinality({k \in 1..Len(Picked) : FamilyOf(pool[picks[Picked[k]].idx]) = fam})
  /\ runningCost = SumSeq([i \in 1..Len(chosen) |-> chosen[i].recipe.costUSD])

NeverDecreased ==
  /\ \A key \in DOMAIN usedTitles : MapGet(usedTitles', key) >= usedTitles[key]
  /\ \A fam \in DOMAIN usedFamilies : MapGet(usedFamilies', fam) >= usedFamilies[fam]
  /\ runningCost' >= runningCost

\* C10 (whole-week tracking): in every state the title-use counts, the family-use
\* counts and the running cost are those of the PlanSlots chosen so far, and no
\* step, a change of day included, resets or decreases any of them.
C10_Tracking == []Tracked /\ [][NeverDecreased]_vars

\* the second day of a run: counts of 2 carried over from the first day
C10_Witness ==
  /\ pc = "loop" /\ d >= 1
  /\ \E key \in DOMAIN usedTitles :
        /\ usedTitles[key] >= 2
        /\ \E i \in 1..Len(chosen) :
              chosen[i].dayIndex = 0 /\ titleKey(chosen[i].recipe.title) = key
        /\ \E i \in 1..Len(chosen) :
              chosen[i].dayIndex >= 1 /\ titleKey(chosen[i].recipe.title) = key
  /\ \E fam \in DOMAIN usedFamilies : usedFamilies[fam] >= 2
  /\ runningCost > 0

\* ---------------------------------------------------------------- C11
\* the slot list the specification states for each number of meals per day
ActiveSlots ==
  [m \in 1..4 |-> CASE m = 1 -> <<"dinner">>
                     [] m = 2 -> <<"lunch", "dinner">>
                     [] m = 3 -> <<"breakfast", "lunch", "dinner">>
                     [] m = 4 -> <<"breakfast", "lunch", "dinner", "snack">>]

SlotsPerDay == Len(ActiveSlots[opts.mealsPerDay])

\* the i-th cell of the week, day by day and within a day in slot order
CellAt(i) ==
  [dayIndex |-> (i - 1) \div SlotsPerDay,
   slot |-> ActiveSlots[opts.mealsPerDay][((i - 1) % SlotsPerDay) + 1]]

\* the visits so far are the first cells of the week, each once and in order
VisitsInOrder ==
  /\ Len(picks) <= opts.days * SlotsPerDay
  /\ \A i \in 1..Len(picks) :
        picks[i].dayIndex = CellAt(i).dayIndex /\ picks[i].slot = CellAt(i).slot

\* the visits that returned a candidate, in visit order
FilledVisits == SelectSeq(picks, LAMBDA v : v.idx # 0)

\* the chosen slots are the filled visits, in visit order
SlotsInVisitOrder(slots) ==
  /\ Len(slots) = Len(FilledVisits)
  /\ \A i \in 1..Len(slots) :
        slots[i].dayIndex = FilledVisits[i].dayIndex /\ slots[i].slot = FilledVisits[i].slot
  /\ \A i, j \in 1..Len(slots) :
        (slots[i].dayIndex = slots[j].dayIndex /\ slots[i].slot = slots[j].slot) => i = j

LoopDone == pc = "done" /\ pool # <<>>

VisitsComplete ==
  /\ VisitsInOrder
  /\ SlotsInVisitOrder(chosen)
  /\ LoopDone =>
       /\ Len(picks) = opts.days * SlotsPerDay
       /\ plan.slots = chosen
       /\ plan.summary.days = opts.days
       /\ plan.summary.slotsPerDay = SlotsPerDay

\* the steps planWeek still has to take: the entry, one per unvisited cell, the return
StepsLeft ==
  IF pc = "done" THEN 0
  ELSE (IF pc = "start" THEN 2 ELSE 1) + opts.days * SlotsPerDay - Len(picks)

\* every step takes planWeek nearer to its return, a visit by exactly one cell
Progress ==
  /\ StepsLeft' < StepsLeft
  /\ (pc = "loop" /\ pc' = "loop") => Len(picks') = Len(picks) + 1

\* planWeek never stops before its return: at the entry one of the two branches
\* is taken, in the loop either the cell (d, si) exists or the loop is over
NotStuck ==
  /\ pc \in {"start", "loop", "done"}
  /\ pc = "loop" => d \in 0..opts.days /\ si \in 1..SlotsPerDay

\* C11 (cell visiting order and termination): the active slot list is the stated
\* one for 1, 2, 3 and 4 meals per day; the loop of planWeek visits the cells of
\* the week one by one, day by day and within a day in slot order, each exactly
\* once; it returns, and it returns after days x slotsPerDay visits; the output
\* slots are the filled visits in visit order, no (dayIndex, slot) pair twice.
C11_VisitOrder == [](VisitsComplete /\ NotStuck /\ StepsLeft >= 0) /\ [][Progress]_vars

\* a two-day plan of four meals a day has returned with a cell left empty
C11_Witness ==
  /\ LoopDone
  /\ opts.days = 2 /\ opts.mealsPerDay = 4
  /\ Len(picks) = 8
  /\ Len(plan.slots) \in 1..7

\* ---------------------------------------------------------------- C12
\* the candidates given to planWeek that have a finite cost and finite minutes
NormalizedPool == SelectSeq(candidates, LAMBDA c : c.costUSD # NonFinite /\ c.minutes # NonFinite)

RECURSIVE Total(_, _)
Total(f, n) == IF n = 0 THEN 0 ELSE f[n] + Total(f, n - 1)

\* the fraction q is the mean of the n values f[1..n], 0 when there is none
IsMean(q, f, n) ==
  IF n = 0 THEN q.num = 0 /\ q.den # 0
  ELSE q.den # 0 /\ q.num * n = Total(f, n) * q.den

CoverageOf(c) == IF c.coverage = None THEN 0 ELSE c.coverage[1]
ConfidenceOf(c) == IF c.priceConfidence = None THEN 0 ELSE c.priceConfidence[1]

\* coverage is kept in hundredths: 0.7 is 70
EstimateThreshold == 70

SummaryAsStated ==
  LET s == plan.summary
      n == Len(plan.slots)
      m == Len(NormalizedPool)
  IN /\ s.totalCostUSD = Total([i \in 1..n |-> plan.slots[i].recipe.costUSD], n)
     /\ IsMean(s.avgMinutes, [i \in 1..n |-> plan.slots[i].recipe.minutes], n)
     /\ IsMean(s.avgCoverage, [i \in 1..m |-> CoverageOf(NormalizedPool[i])], m)
     /\ IsMean(s.avgPriceConfidence, [i \in 1..m |-> ConfidenceOf(NormalizedPool[i])], m)
     /\ s.costIsEstimate <=>
          Total([i \in 1..m |-> CoverageOf(NormalizedPool[i])], m) < EstimateThreshold * m \/ m = 0

\* C12 (plan summary): in the returned plan totalCostUSD is the sum of the costs of
\* the chosen slots and avgMinutes the mean of their minutes; avgCoverage and
\* avgPriceConfidence are the means over all candidates with finite cost and
\* minutes, chosen or not, a missing value counting as 0; costIsEstimate is
\* true exactly when that mean coverage is below 0.7.
C12_Summary == pc = "done" => SummaryAsStated

\* a plan has returned whose chosen meals all have coverage of 0.7 or more while
\* the pool-wide mean is below 0.7, with two or more slots chosen
C12_Witness ==
  /\ pc = "done"
  /\ Len(plan.slots) >= 2
  /\ Len(pool) >= 2
  /\ \A i \in 1..Len(picks) :
        picks[i].idx # 0 => CoverageOf(pool[picks[i].idx]) >= EstimateThreshold
  /\ plan.summary.costIsEstimate
  /\ plan.summary.avgCoverage.num > 0
  /\ \E i \in 1..Len(pool) : pool[i].priceConfidence = None

\* ---------------------------------------------------------------- C13
Broken(c) == c.costUSD = NonFinite \/ c.minutes = NonFinite

\* no candidate is left after normalization
Degenerate == \A i \in 1..Len(candidates) : Broken(candidates[i])

EmptyResult(p) ==
  /\ p.slots = <<>>
  /\ p.summary.totalCostUSD = 0
  /\ p.summary.avgMinutes.num = 0
  /\ p.summary.costIsEstimate = TRUE

\* no slot holds a candidate with a non-finite cost or minutes
NoBrokenPlaced(slots) ==
  \A i \in 1..Len(slots) :
    /\ slots[i].recipe.costUSD # NonFinite /\ slots[i].recipe.minutes # NonFinite
    /\ \A k \in 1..Len(candidates) :
          Broken(candidates[k]) => candidates[k].id # slots[i].recipe.id

DegenerateSafe ==
  /\ NoBrokenPlaced(chosen)
  /\ NoBrokenPlaced(plan.slots)
  /\ Degenerate => pc \in {"start", "done"}
  /\ (Degenerate /\ pc = "done") => EmptyResult(plan)

\* with a degenerate pool the one step of planWeek is its return
DegenerateReturns == (Degenerate /\ pc = "start") => pc' = "done" /\ EmptyResult(plan')

\* C13 (degenerate pool): when the input is empty or every candidate has a
\* non-finite cost or non-finite minutes, planWeek returns at once, without an
\* error, a plan with no slots, total cost 0, average minutes 0 and
\* costIsEstimate true; in no plan, of any pool, does a slot hold a candidate
\* with a non-finite cost or minutes.
C13_Degenerate == []DegenerateSafe /\ [][DegenerateReturns]_vars

\* planWeek has returned for a non-empty pool of candidates with a non-finite
\* cost, with non-finite minutes, and nothing else
C13_Witness ==
  /\ pc = "done"
  /\ Degenerate
  /\ \E i \in 1..Len(candidates) :
        candidates[i].costUSD = NonFinite /\ candidates[i].minutes # NonFinite
  /\ \E i \in 1..Len(candidates) :
        candidates[i].minutes = NonFinite /\ candidates[i].costUSD # NonFinite
  /\ plan.slots = <<>>

\* planWeek has filled a slot from a pool holding a non-finite candidate too
C13_MixedPool ==
  /\ pc = "done"
  /\ ~Degenerate
  /\ \E i \in 1..Len(candidates) : Broken(candidates[i])
  /\ plan.slots # <<>>

\* ---------------------------------------------------------------- C14
\* the dimension of each unit, as the specification lists them
DimOf ==
  [u \in Units |-> IF u \in {"g", "kg"} THEN "mass"
                   ELSE IF u \in {"ml", "l", "tbsp", "tsp", "cup"} THEN "volume"
                   ELSE "count"]

ConvertCalled == mCall.op = "convert" /\ mRet.st # "none"

\* C14 (cross-dimension rejection): for every value, NaN included, and every pair
\* of units of different dimensions, convert throws an error and returns no
\* value.
C14_CrossDimension ==
  (ConvertCalled /\ DimOf[mCall.from] # DimOf[mCall.to]) =>
     /\ mRet.st = "threw"
     /\ mRet.val = <<"Incompatible unit conversion", mCall.from, mCall.to>>

\* convert(1, "ml", "unit") has thrown
C14_Witness ==
  /\ ConvertCalled
  /\ mCall.value = Num(1) /\ mCall.from = "ml" /\ mCall.to = "unit"
  /\ mRet.st = "threw"

\* ---------------------------------------------------------------- C15
\* C15 (round trip): for every finite value x and every pair of units a, b of one
\* dimension, convert(x, a, b) returns, and converting its result back from b
\* to a returns x exactly.
C15_RoundTrip ==
  /\ (ConvertCalled /\ DimOf[mCall.from] = DimOf[mCall.to]) => mRet.st = "returned"
  /\ (mCall.op = "convert" /\ mBack.st # "none" /\ RatFinite(mCall.value)) =>
        mBack.st = "returned" /\ mBack.val = mCall.value

\* a third of a teaspoon went to cups, a different number, and back
C15_Witness ==
  /\ mCall.op = "convert"
  /\ mCall.value = Rat(1, 3) /\ mCall.from = "tsp" /\ mCall.to = "cup"
  /\ mRet.st = "returned" /\ mRet.val # mCall.value
  /\ mBack.st = "returned"

\* ---------------------------------------------------------------- C16
\* grams in one mass unit, millilitres in one volume unit, as the specification
\* states them
Factor ==
  [u \in Units |-> CASE u = "g" -> 1 [] u = "kg" -> 1000
                     [] u = "ml" -> 1 [] u = "tsp" -> 5 [] u = "tbsp" -> 15
                     [] u = "cup" -> 240 [] u = "l" -> 1000 [] u = "unit" -> 1]

ConvertExample(v, a, b, r) ==
  (ConvertCalled /\ mCall.value = Num(v) /\ mCall.from = a /\ mCall.to = b) => mRet = Returned(r)

\* C16 (conversion factors): convert returns its value unchanged when from = to;
\* between two different units of one dimension it returns
\* value x factor(from) / factor(to), with g = 1, kg = 1000 and ml = 1, tsp = 5,
\* tbsp = 15, cup = 240, l = 1000; so 1 kg is 1000 g, 250 g are 0.25 kg, 2 tbsp
\* are 30 ml, 3 tsp are 15 ml and 240 ml are 1 cup.
C16_Factors ==
  /\ (ConvertCalled /\ mCall.from = mCall.to) => mRet = Returned(mCall.value)
  /\ (ConvertCalled /\ mCall.from # mCall.to /\ DimOf[mCall.from] = DimOf[mCall.to]) =>
        /\ mRet.st = "returned"
        /\ RatFinite(mRet.val) <=> RatFinite(mCall.value)
        /\ RatMul(mRet.val, Num(Factor[mCall.to])) = RatMul(mCall.value, Num(Factor[mCall.from]))
  /\ ConvertExample(1, "kg", "g", Num(1000))
  /\ ConvertExample(250, "g", "kg", Rat(1, 4))
  /\ ConvertExample(2, "tbsp", "ml", Num(30))
  /\ ConvertExample(3, "tsp", "ml", Num(15))
  /\ ConvertExample(240, "ml", "cup", Num(1))
  /\ ConvertExample(500, "ml", "l", Rat(1, 2))

\* convert(2, "tbsp", "ml") has returned 30
C16_Witness ==
  /\ ConvertCalled
  /\ mCall.value = Num(2) /\ mCall.from = "tbsp" /\ mCall.to = "ml"
  /\ mRet = Returned(Num(30))

\* ---------------------------------------------------------------- C17
ScaleCalled == mCall.op = "scaleRecipe" /\ mRet.st # "none"

GoodRatio(r) == RatFinite(r) /\ r.num > 0

\* the list out has the length, order, names and units of the list in
SameShape(out, in) ==
  /\ Len(out) = Len(in)
  /\ \A i \in 1..Len(in) : out[i].name = in[i].name /\ out[i].unit = in[i].unit

\* C17 as stated: every scaled quantity is exactly the original quantity
\* multiplied by the ratio.
C17_ExactScaling ==
  (ScaleCalled /\ GoodRatio(mCall.ratio)) =>
     /\ mRet.st = "returned"
     /\ SameShape(mRet.val, mCall.ingredients)
     /\ \A i \in 1..Len(mCall.ingredients) :
           mRet.val[i].qty = RatMul(mCall.ingredients[i].qty, mCall.ratio)

\* r is a whole number of ten-thousandths and no other one is nearer to x
NearestTenThousandth(r, x) ==
  LET y == RatMul(x, Num(10000))
  IN /\ 10000 % r.den = 0
     /\ 2 * Abs(r.num * (10000 \div r.den) * y.den - y.num) <= y.den

\* C17 (scaling): scaleRecipe with a finite ratio > 0 returns a list of the same
\* length and order in which every ingredient keeps its name and unit and has
\* the quantity original x ratio rounded to four decimal places, which is the
\* product itself when that has no more than four decimals; the list passed in
\* is left as it was.
C17_Scaling ==
  /\ [](( ScaleCalled /\ GoodRatio(mCall.ratio)) =>
         /\ mRet.st = "returned"
         /\ SameShape(mRet.val, mCall.ingredients)
         /\ \A i \in 1..Len(mCall.ingredients) :
               \E x \in {RatMul(mCall.ingredients[i].qty, mCall.ratio)} :
                 /\ NearestTenThousandth(mRet.val[i].qty, x)
                 /\ RatMul(x, Num(10000)).den = 1 => mRet.val[i].qty = x)
  /\ [][mCall.op = "scaleRecipe" => mCall' = mCall]_vars

\* a third of 200 g has come back as 66.6667 g, and twice 250 ml as 500 ml
C17_Witness ==
  /\ ScaleCalled /\ mRet.st = "returned"
  /\ \E i \in 1..Len(mCall.ingredients) :
        \/ /\ mCall.ratio = Rat(1, 3) /\ mCall.ingredients[i].qty = Num(200)
            /\ mRet.val[i].qty = Rat(666667, 10000)
        \/ /\ mCall.ratio = Num(2) /\ mCall.ingredients[i].qty = Num(250)
            /\ mRet.val[i].qty = Num(500)

\* ---------------------------------------------------------------- C18
\* C18 (invalid ratio): whenever the ratio is zero, negative or not finite,
\* scaleRecipe throws and returns no list, whatever the ingredient list, the
\* empty one included.
C18_InvalidRatio ==
  (ScaleCalled /\ ~GoodRatio(mCall.ratio)) =>
     mRet.st = "threw" /\ mRet.val = <<"Invalid scale ratio", mCall.ratio>>

\* scaleRecipe(0, []) has thrown
C18_Witness ==
  /\ ScaleCalled
  /\ mCall.ratio = Num(0) /\ mCall.ingredients = <<>>
  /\ mRet.st = "threw"

\* ---------------------------------------------------------------- C19
\* the book prices the ingredient: its normalized name has an entry and the
\* entry's unit has the dimension of the ingredient's unit
Priced(ing, book) ==
  /\ toPriceKey(ing.name) \in DOMAIN book
  /\ DimOf[ing.unit] = DimOf[book[toPriceKey(ing.name)].unit]

\* quantity in the price unit x amount per unit, 0 for an unpriced ingredient
Contribution(ing, book) ==
  IF Priced(ing, book)
    THEN LET price == book[toPriceKey(ing.name)]
         IN RatMul(RatDiv(RatMul(ing.qty, Num(Factor[ing.unit])), Num(Factor[price.unit])),
                   price.amount)
    ELSE Num(0)

RECURSIVE ExactCost(_, _)
ExactCost(ings, book) ==
  IF ings = <<>> THEN Num(0) ELSE RatAdd(Contribution(Head(ings), book), ExactCost(Tail(ings), book))

\* r is x rounded to cents, half a cent going up
RoundedToCents(r, x) ==
  LET y == RatMul(x, Num(100))
  IN /\ 100 % r.den = 0
     /\ \E e \in {2 * (r.num * (100 \div r.den) * y.den - y.num)} : 0 - y.den < e /\ e <= y.den

CostCalled == mCall.op = "cost" /\ mRet.st # "none"

TestBook == CHOOSE b \in PriceBooks : N_flour \in DOMAIN b

TestIngredients ==
  << Ingredient(<<"M","i","l","k">>, Num(500), "ml"),
     Ingredient(<<"F","l","o","u","r">>, Num(300), "g"),
     Ingredient(<<"E","g","g">>, Num(2), "unit") >>

\* C19 (total cost): totalCost returns, without an error, the sum over the
\* ingredients that the book prices (normalized name found, unit of the same
\* dimension as the price unit) of quantity in the price unit x amount per
\* unit, rounded to cents once, on the sum; every other ingredient adds
\* nothing; 500 ml milk, 300 g flour and 2 eggs cost 1.73.
C19_TotalCost ==
  CostCalled =>
    /\ mRet.st = "returned"
    /\ RoundedToCents(mRet.val, ExactCost(mCall.ingredients, mCall.priceBook))
    /\ (mCall.ingredients = TestIngredients /\ mCall.priceBook = TestBook) =>
          mRet.val = Rat(173, 100)

\* a total has been returned that differs from the sum of the cents of each
\* ingredient, for a list with an unpriced and a wrongly weighed ingredient
C19_Witness ==
  /\ CostCalled
  /\ \E i \in 1..Len(mCall.ingredients) : ~Priced(mCall.ingredients[i], mCall.priceBook)
  /\ \E i \in 1..Len(mCall.ingredients) :
        /\ Priced(mCall.ingredients[i], mCall.priceBook)
        /\ mCall.ingredients[i].name # toPriceKey(mCall.ingredients[i].name)
  /\ mRet.val.num > 0
  /\ mRet.val # totalCost_RoundEach(mCall.ingredients, mCall.priceBook)

\* ---------------------------------------------------------------- C20
BreakdownCalled == mCall.op = "cost" /\ mRows.st # "none"

\* C20 (cost breakdown): costBreakdown never throws; it returns one row per
\* ingredient, in the order of the input, with the ingredient's name, quantity
\* and unit; a row has no cost (not the cost 0) when the book has no entry for
\* the ingredient or the units are of different dimensions, and a cost
\* otherwise (0.30 for a cup of milk at 0.00125 per ml).
C20_Breakdown ==
  BreakdownCalled =>
    /\ mRows.st = "returned"
    /\ Len(mRows.val) = Len(mCall.ingredients)
    /\ \A i \in 1..Len(mCall.ingredients) :
          \E ing \in {mCall.ingredients[i]} : \E row \in {mRows.val[i]} :
            /\ row.name = ing.name /\ row.qty = ing.qty /\ row.unit = ing.unit
            /\ row.cost = None <=> ~Priced(ing, mCall.priceBook)
            /\ (ing.unit = "cup" /\ mCall.priceBook = TestBook) => row.cost = Some(Rat(3, 10))

\* rows have been returned for a priced ingredient, an unpriced one and one
\* whose unit is of another dimension than its price
C20_Witness ==
  /\ BreakdownCalled
  /\ Len(mRows.val) = 3
  /\ mRows.val[1].cost # None
  /\ mRows.val[2].cost = None /\ toPriceKey(mRows.val[2].name) \notin DOMAIN mCall.priceBook
  /\ mRows.val[3].cost = None /\ toPriceKey(mRows.val[3].name) \in DOMAIN mCall.priceBook

\* ---------------------------------------------------------------- C21
\* the synonyms the specification lists, each with its canonical unit
ListedSynonyms ==
  [w \in {UnitSynonyms[i][1] : i \in 1..Len(UnitSynonyms)} |->
     CASE w[1] = "g" -> "g"
       [] w[1] = "k" -> "kg"
       [] w[1] = "m" \/ (w[1] = "c" /\ w[2] = "c") -> "ml"
       [] w[1] = "l" -> "l"
       [] w[1] = "t" /\ w[2] = "a" -> "tbsp"
       [] w[1] = "t" /\ w[2] = "e" -> "tsp"
       [] w[1] = "c" /\ w[2] = "u" -> "cup"
       [] OTHER -> "unit"]

\* the unit the specification gives the word w
UnitAsStated(w) ==
  IF w \in DOMAIN ListedSynonyms THEN ListedSynonyms[w]
  ELSE IF \E u \in Units : UnitText(u) = w THEN CHOOSE u \in Units : UnitText(u) = w
  ELSE "unit"

NormalizeCalled == mCall.op = "normalizeUnit" /\ mRet.st # "none"

\* C21 (unit normalization): normalizeUnit returns, never throws, one of the
\* eight canonical units: the unit of a listed synonym and a canonical unit
\* itself, however the word is capitalized and whatever blanks surround it,
\* and "unit" for every other string; applied to its own result it returns
\* that result.
C21_NormalizeUnit ==
  /\ NormalizeCalled =>
       /\ mRet.st = "returned"
       /\ mRet.val \in Units
       /\ mRet.val = UnitAsStated(mCall.word)
  /\ (mCall.op = "normalizeUnit" /\ mBack.st # "none") => mBack = mRet

\* " KILOGRAMS" written in capitals after a line break has become kg, and kg again
C21_Witness ==
  /\ NormalizeCalled
  /\ mCall.text # mCall.word
  /\ Head(mCall.text) \in SpaceChars
  /\ mRet.val = "kg"
  /\ mBack = Returned("kg")

\* an unknown word has become "unit"
C21_Unknown ==
  /\ NormalizeCalled
  /\ mCall.word \in UnknownWords /\ mCall.word # <<>>
  /\ mRet.val = "unit"

\* ---------------------------------------------------------------- C22
WeekDone == pwPc = "done" /\ Len(pwPool) > 0

DayScoreSum == SumSeq([i \in 1..Len(pwResult.days) |-> pwResult.days[i].score])

WeekCost == SumSeq([i \in 1..Len(pwResult.days) |-> pwResult.days[i].recipe.cost])

\* (total - cap) x overBudgetPenalty, in the scale of the scores of this run
OverBudget(cap) ==
  (WeekCost - cap) * pwWeights.overBudgetPenalty * (ScoreScale(Bounds(pwPool)) \div 100)

\* C22 (weekly budget): with a cap that is not null and >= 0 the days returned
\* are the picks of the day loop with their scores untouched; when the total
\* cost exceeds the cap, scoreSum is the sum of the day scores minus
\* (total - cap) x overBudgetPenalty, and otherwise scoreSum is that sum.
C22_BudgetPenalty ==
  (WeekDone /\ pwCons.budgetCapUSD # None) =>
     \E cap \in {pwCons.budgetCapUSD[1]} :
        /\ pwResult.days = pwChosen
        /\ pwResult.totals.costUSD = WeekCost
        /\ WeekCost > cap => pwResult.scoreSum = DayScoreSum - OverBudget(cap)
        /\ WeekCost <= cap => pwResult.scoreSum = DayScoreSum

\* ---------------------------------------------------------------- C23
HasFamilyTag(c) == \E i \in 1..Len(c.tags) : c.tags[i].k \in {"prot", "cuisine"}

\* the first few tokens of a title
LeadingTokens(title) == SubSeq(tokenize(title), 1, SetMin({3, Len(tokenize(title))}))

\* the family key as stated: the joined tags, else the leading title tokens
StatedFamily(c) ==
  IF HasFamilyTag(c) THEN <<"tags", FamilyOf(c)>> ELSE <<"title", LeadingTokens(c.title)>>

\* picks so far, in the whole plan, with the family key of c as stated
StatedCount(c) ==
  Cardinality({k \in 1..Len(Picked) : StatedFamily(pool[picks[Picked[k]].idx]) = StatedFamily(c)})

\* picks so far, in the whole plan, with the protein and cuisine pair of c
FamilyCount(c) ==
  Cardinality({k \in 1..Len(Picked) : FamilyOf(pool[picks[Picked[k]].idx]) = FamilyOf(c)})

InLoop == pc = "loop"

PenaltyNow(c) == diversityPenalty(c, usedFamilies, opts.diversityWeight)

\* C23 as stated: the penalty of a candidate is diversityWeight x (picks so far
\* with its family key) x 0.35, the key of an untagged candidate being its
\* leading title tokens, so that untagged candidates with different titles do
\* not raise each other's penalty.
C23_TitleFallback ==
  InLoop => \A i \in 1..Len(pool) :
     PenaltyNow(pool[i]) = opts.diversityWeight * StatedCount(pool[i]) * 35

\* C23 (diversity penalty), amended: the penalty of a candidate is
\* diversityWeight x (picks so far in the whole plan with its family key) x 0.35,
\* where the family key is the first protein tag, or prot:none, joined with the
\* first cuisine tag, or cuisine:gen; all candidates without such tags share
\* one key.
C23_DiversityPenalty ==
  InLoop => \A i \in 1..Len(pool) :
     PenaltyNow(pool[i]) = opts.diversityWeight * FamilyCount(pool[i]) * 35

\* on the second day a family picked twice on the first costs a candidate of
\* that family twice the penalty
C23_Witness ==
  /\ InLoop /\ d >= 1 /\ opts.diversityWeight > 0
  /\ \E i \in 1..Len(pool) :
        /\ FamilyCount(pool[i]) >= 2
        /\ PenaltyNow(pool[i]) = opts.diversityWeight * 70

\* ---------------------------------------------------------------- C24
\* title, ingredients and tags of a recipe, put together and lower-cased
TextOf(r) == toLowerCase(Join(<<r.title>> \o r.ingredients \o r.tags, <<" ">>))

IsWordChar(ch) == ch \in DigitChars \/ ch \in {LowerChars[i] : i \in 1..26}

\* the whole tokens of a text: its maximal runs of letters and digits
WholeTokens(text) ==
  {SubSeq(text, a, SetMin({b \in a..Len(text) : b = Len(text) \/ ~ IsWordChar(text[b + 1])})) :
     a \in {x \in 1..Len(text) : IsWordChar(text[x]) /\ (x = 1 \/ ~ IsWordChar(text[x - 1]))}}

\* some forbid term, lower-cased and trimmed, is a whole token of the recipe
ExactTokenMatch(r, forbid) ==
  \E toks \in {WholeTokens(TextOf(r))} :
     \E i \in 1..Len(forbid) : trim(toLowerCase(forbid[i])) \in toks

PickWeekRuns == pwPc # "idle" /\ Len(pwPool) > 0

IsFallbackDay(i) == pwChosen[i].score = FallbackScore(Bounds(pwPool))

\* C24 (exact-token matching): a recipe gets the hard-block score on a day iff
\* a forbid term, lower-cased and trimmed, equals a whole token of its title,
\* ingredients and tags; so a day's pick comes from the fallback branch iff
\* every recipe of the pool has such a token, a regular pick has none, and an
\* empty list blocks nothing.
C24_ExactToken ==
  PickWeekRuns =>
     \E matched \in {{k \in 1..Len(pwPool) : ExactTokenMatch(pwPool[k], pwCons.forbidTerms)}} :
        /\ \A i \in 1..Len(pwPool) : \A day \in {pwDay} \cap (0..6) :
              (scoreDayCandidate(pwPool[i], Bounds(pwPool), pwWeights, pwCons, day)
                 = HardBlockScore(Bounds(pwPool)))
              <=> i \in matched
        /\ \A i \in 1..Len(pwChosen) :
              /\ IsFallbackDay(i) <=> matched = 1..Len(pwPool)
              /\ ~ IsFallbackDay(i) =>
                    \A k \in 1..Len(pwPool) : pwPool[k] = pwChosen[i].recipe => k \notin matched
        /\ pwCons.forbidTerms = <<>> => matched = {}

\* with " NUT " and "egg" forbidden, Slaw (ingredient "Nut") is blocked and Eggs
\* is picked on a regular day
C24_Witness ==
  /\ WeekDone
  /\ \E i \in 1..Len(pwCons.forbidTerms) :
        /\ pwCons.forbidTerms[i] = W_egg
        /\ \E k \in 1..Len(pwChosen) :
              /\ W_eggs \in WholeTokens(TextOf(pwChosen[k].recipe))
              /\ ~ IsFallbackDay(k)
  /\ \E i \in 1..Len(pwCons.forbidTerms) :
        /\ trim(pwCons.forbidTerms[i]) # pwCons.forbidTerms[i]
        /\ \E k \in 1..Len(pwPool) :
              /\ trim(toLowerCase(pwCons.forbidTerms[i])) \in WholeTokens(TextOf(pwPool[k]))
              /\ \A j \in 1..Len(pwChosen) : pwChosen[j].recipe # pwPool[k]

\* ---------------------------------------------------------------- C25
\* the picks made so far are those of days 0 .. pwDay - 1, one for each day
OnePickPerDay ==
  pwPc = "start" =>
     /\ pwDay \in 0..7
     /\ Len(pwChosen) = pwDay
     /\ \A i \in 1..Len(pwChosen) : \E k \in 1..Len(pwPool) : pwPool[k] = pwChosen[i].recipe

SevenDays ==
  WeekDone =>
     /\ Len(pwResult.days) = 7
     /\ pwResult.days = pwChosen
     /\ \A i \in 1..7 : \E k \in 1..Len(pwPool) : pwPool[k] = pwResult.days[i].recipe

EmptyWeek ==
  (pwPc = "done" /\ Len(pwPool) = 0) =>
     /\ pwResult.days = <<>>
     /\ pwResult.totals = [costUSD |-> 0, minutes |-> 0]

\* a step that picks adds the pick of day pwDay behind the picks of the days before
PicksInDayOrder ==
  pwChosen' # pwChosen =>
     /\ pwDay' = pwDay + 1
     /\ Len(pwChosen') = pwDay + 1
     /\ SubSeq(pwChosen', 1, pwDay) = pwChosen

\* C25 (seven picks): with a non-empty pool pickWeek returns exactly 7 picks,
\* those of days 0..6 in order, each a recipe of the pool, however small the
\* pool; with an empty pool it returns no pick and totals of zero.
C25_SevenPicks == [](OnePickPerDay /\ SevenDays /\ EmptyWeek) /\ [][PicksInDayOrder]_vars

\* a pool of one recipe has filled all seven days
C25_Witness ==
  /\ WeekDone
  /\ Len(pwPool) = 1
  /\ Len(pwResult.days) = 7
  /\ \A i \in 1..7 : pwResult.days[i].recipe = pwPool[1]

\* an empty pool has given the empty week
C25_EmptyPool == pwPc = "done" /\ Len(pwPool) = 0 /\ pwResult.days = <<>>

\* ---------------------------------------------------------------- C26
Rescored == pwPc = "rescored" /\ Len(week) = 7

\* C26 (rescoreWeek): the days returned hold the recipes of the input week in
\* their order, and the totals reported are the sums of cost and minutes over
\* the recipes of the input week (the scores of the days are judged by the
\* recipes they belong to, and so by the same sums).
C26_RescoreWeek ==
  Rescored =>
     /\ Len(pwResult.days) = 7
     /\ \A i \in 1..7 : pwResult.days[i].recipe = week[i]
     /\ pwResult.totals.costUSD = SumSeq([i \in 1..7 |-> week[i].cost])
     /\ pwResult.totals.minutes = SumSeq([i \in 1..7 |-> week[i].minutes])

\* ---------------------------------------------------------------- C27
AtCell == pc = "loop" /\ d < opts.days

\* the pool indices that a phase admits for the cell about to be visited
Admissible(ph) ==
  {i \in 1..Len(pool) : PhasePass(ph, pool[i], d, daySlots[si], usedTitles, chosen, opts)}

\* pool indices with fewer than maxRepeatsPerWeek uses that the broadened rule
\* accepts for the cell about to be visited
BroadlyUsable ==
  {i \in 1..Len(pool) :
     /\ MapGet(usedTitles, titleKey(pool[i].title)) < opts.maxRepeatsPerWeek
     /\ isSlotCompatibleWithFallback(pool[i], daySlots[si], 1)}

Monotone ==
  AtCell =>
     \E a \in {Admissible("A")}, b \in {Admissible("B")}, c \in {Admissible("C")},
        dd \in {Admissible("D")}, e \in {Admissible("E")} :
        /\ a \subseteq e /\ b \subseteq e /\ c \subseteq e /\ dd \subseteq e
        /\ a \subseteq c /\ b \subseteq c
        /\ b \subseteq dd
        /\ e = BroadlyUsable

UnfilledIffNoneUsable == IsVisit => ((chosen' = chosen) <=> (BroadlyUsable = {}))

\* C27 (monotone relaxation): at every cell the admissible set of phase E
\* contains those of A, B, C and D, that of C contains those of A and B, that of
\* D contains that of B; and the cell is left unfilled iff no candidate with
\* fewer than maxRepeatsPerWeek uses is compatible with the slot under the
\* broadened rule.
C27_Monotone == []Monotone /\ [][UnfilledIffNoneUsable]_vars

\* a cell filled in phase E, which only the last relaxation admits, and a cell
\* left unfilled, in one run
C27_Witness ==
  /\ \E k \in 1..Len(picks) : picks[k].idx # 0 /\ picks[k].phase = 5
  /\ \E k \in 1..Len(picks) : picks[k].idx = 0

\* ---------------------------------------------------------------- C28
StoreCells(w) == (0..(Len(w.days) - 1)) \X MealSlots

SameDish(m, n) ==
  m # None /\ n # None /\ m.name = n.name /\ m.costUSD = n.costUSD /\ m.timeMins = n.timeMins

\* a step takes no locked meal out of its cell and changes none; a lock is only
\* lifted by a step that changes nothing but the locked flag of that cell
Frozen ==
  weekPlan # None =>
     \A c \in StoreCells(weekPlan) :
        IsLocked(CellOf(weekPlan, c[1], c[2])) =>
           /\ SameDish(CellOf(weekPlan, c[1], c[2]), CellOf(weekPlan', c[1], c[2]))
           /\ \/ IsLocked(CellOf(weekPlan', c[1], c[2]))
              \/ weekPlan'.days
                   = SetCell(weekPlan, c[1], c[2],
                             [CellOf(weekPlan, c[1], c[2]) EXCEPT !.locked = FALSE]).days

\* a swap with a locked meal at either end and a replace of a locked cell leave
\* every cell as it is
LockedEndsRefuse ==
  weekPlan # None =>
     /\ \A dayA \in CmdDays, dayB \in CmdDays, slotA \in CmdSlots, slotB \in CmdSlots :
           (IsLocked(CellOf(weekPlan, dayA, slotA)) \/ IsLocked(CellOf(weekPlan, dayB, slotB)))
             => swap(weekPlan, dayA, slotA, dayB, slotB).days = weekPlan.days
     /\ \A day \in CmdDays, slot \in CmdSlots, meal \in NewMeals :
           IsLocked(CellOf(weekPlan, day, slot))
             => replace(weekPlan, day, slot, meal).days = weekPlan.days

\* C28 (locked meals): under every sequence of swap, replace, lock, optimize and
\* fill-gaps a locked meal stays in its cell with its name, cost and time until a
\* lock command with locked = false is applied to it; a swap with a locked meal
\* at either end and a replace of a locked cell change no cell.
C28_LockedFrozen == []LockedEndsRefuse /\ [][Frozen]_vars

\* two commands on: Soup is still locked in the lunch cell of the first day
\* while the dinner cell beside it holds another dish than at the start
C28_Witness ==
  /\ weekPlan # None
  /\ weekPlan.updatedAt = MaxCmds
  /\ CellOf(weekPlan, 0, "lunch") = Soup
  /\ CellOf(weekPlan, 0, "dinner") # None
  /\ ~ SameDish(CellOf(weekPlan, 0, "dinner"), Curry)

\* ---------------------------------------------------------------- C29
\* C29 (slot fields): every meal stored at days[d].slots[s] has slot field s,
\* after any sequence of swap, replace, lock, optimize and fill-gaps on a week
\* that started so.
C29_SlotField ==
  weekPlan # None =>
     \A c \in StoreCells(weekPlan) :
        CellOf(weekPlan, c[1], c[2]) # None => CellOf(weekPlan, c[1], c[2]).slot = c[2]

\* ---------------------------------------------------------------- C30
BothCalled == mCall.op = "cost" /\ mRet.st = "returned" /\ mRows.st = "returned"

\* the exact cost of the ingredients whose row carries a cost
RECURSIVE CostOfRows(_, _, _)
CostOfRows(rows, ings, book) ==
  IF ings = <<>> THEN Num(0)
  ELSE RatAdd(IF Head(rows).cost # None THEN Contribution(Head(ings), book) ELSE Num(0),
              CostOfRows(Tail(rows), Tail(ings), book))

SamePriced ==
  BothCalled =>
     /\ Len(mRows.val) = Len(mCall.ingredients)
     /\ \A i \in 1..Len(mCall.ingredients) :
           mRows.val[i].cost # None <=> Priced(mCall.ingredients[i], mCall.priceBook)
     /\ RoundedToCents(mRet.val, CostOfRows(mRows.val, mCall.ingredients, mCall.priceBook))

InputsKept == mCall.op = "cost" => mCall' = mCall

\* C30 (total and breakdown agree): for one list and one book, the ingredients
\* that add a term to the total of totalCost are exactly those whose row of
\* costBreakdown carries a cost - the total is the rounded sum of the exact
\* costs of the ingredients with such a row - and neither call changes the
\* ingredient list or the price book.
C30_SamePriced == []SamePriced /\ [][InputsKept]_vars

\* both have been called on a list with a row without a cost and a row whose
\* cost needed a conversion of units, and the total is not zero
C30_Witness ==
  /\ BothCalled
  /\ mRet.val.num > 0
  /\ \E i \in 1..Len(mRows.val) : mRows.val[i].cost = None
  /\ \E i \in 1..Len(mRows.val) :
        /\ mRows.val[i].cost # None
        /\ mRows.val[i].unitPricedAs # Some(mRows.val[i].unit)
====
